---- MODULE Spec2Model ----
(***************************************************************************)
(* The indicator registry of mcp_indicators (indicators/registry.py) and   *)
(* its pandas-ta backend adapter, as a state machine: the catalog _defs,   *)
(* the alias index _syn_index, the caller's table df, and one action per   *)
(* public operation of IndicatorRegistry.                                  *)
(***************************************************************************)
EXTENDS Integers, Sequences, FiniteSets, TLC

VARIABLES
  _defs,       \* IndicatorRegistry._defs: canonical name -> IndicatorDef
  _syn_index,  \* IndicatorRegistry._syn_index: alias (lower) -> canonical name
  df,          \* the caller-owned table: its column names, in column order
  ret          \* the last call: operation, arguments and what it returned or raised

vars == <<_defs, _syn_index, df, ret>>

-----------------------------------------------------------------------------
(* Python strings.  A string is a TLA+ string; the case conversions and    *)
(* strip() are computed character by character.                            *)

UpperChars == "ABCDEFGHIJKLMNOPQRSTUVWXYZÄ"
LowerChars == "abcdefghijklmnopqrstuvwxyzä"
Whitespace == {" ", "\t", "\n", "\r"}

CharAt(s, i) == SubSeq(s, i, i)

\* The mapping that takes each character of `from` to the character of `to`
\* at the same position.
CharMap(from, to) ==
  [c \in {CharAt(from, i) : i \in 1..Len(from)} |->
     CharAt(to, CHOOSE i \in 1..Len(from) : CharAt(from, i) = c)]

LowerTable == CharMap(UpperChars, LowerChars)
UpperTable == CharMap(LowerChars, UpperChars)

RECURSIVE MapString(_, _)
MapString(s, table) ==
  IF Len(s) = 0 THEN ""
  ELSE (IF CharAt(s, 1) \in DOMAIN table THEN table[CharAt(s, 1)] ELSE CharAt(s, 1))
         \o MapString(SubSeq(s, 2, Len(s)), table)

\* str.lower()
lower(s) == MapString(s, LowerTable)

\* str.upper()
upper(s) == MapString(s, UpperTable)

RECURSIVE lstrip(_)
lstrip(s) ==
  IF Len(s) > 0 /\ CharAt(s, 1) \in Whitespace THEN lstrip(SubSeq(s, 2, Len(s))) ELSE s

RECURSIVE rstrip(_)
rstrip(s) ==
  IF Len(s) > 0 /\ CharAt(s, Len(s)) \in Whitespace THEN rstrip(SubSeq(s, 1, Len(s) - 1)) ELSE s

\* str.strip()
strip(s) == rstrip(lstrip(s))

\* `sub in s` for two strings
Contains(s, sub) ==
  \E i \in 1..(Len(s) - Len(sub) + 1) : SubSeq(s, i, i + Len(sub) - 1) = sub

-----------------------------------------------------------------------------
(* Python values.  A float is held in fixed point, FloatScale units per    *)
(* one: every float literal of the catalog has at most three decimals.     *)

FloatScale == 1000

NoneV == [t |-> "none"]
IntV(n) == [t |-> "int", i |-> n]
FloatV(m) == [t |-> "float", f |-> m]
BoolV(b) == [t |-> "bool", b |-> b]
StrV(s) == [t |-> "str", s |-> s]
ListV(l) == [t |-> "list", l |-> l]

\* One entry of a dict; a dict is the sequence of its entries in insertion order.
KV(k, v) == [k |-> k, v |-> v]

Keys(d) == {d[i].k : i \in DOMAIN d}
Values(d) == {d[i].v : i \in DOMAIN d}
Get(d, k) == d[CHOOSE i \in DOMAIN d : d[i].k = k].v
\* dict.get(k, default)
GetOr(d, k, default) == IF k \in Keys(d) THEN Get(d, k) ELSE default
\* d[k] = v: in place for a key already present, appended otherwise
Put(d, k, v) ==
  IF k \in Keys(d)
  THEN [i \in DOMAIN d |-> IF d[i].k = k THEN KV(k, v) ELSE d[i]]
  ELSE Append(d, KV(k, v))

RECURSIVE Update(_, _)
\* dict.update(other)
Update(d, other) ==
  IF other = <<>> THEN d
  ELSE Update(Put(d, other[1].k, other[1].v), Tail(other))

\* The result of a call: a returned value or a raised exception.
Ok(v) == [ok |-> TRUE, val |-> v]
Raise(exc, at, msg) == [ok |-> FALSE, exc |-> exc, at |-> at, msg |-> msg]

-----------------------------------------------------------------------------
(* The data classes.                                                       *)

\* ParamSpec(name, type, default, min, max, choices), positionally
P(name, type, default, min, max, choices) ==
  [name |-> name, type |-> type, default |-> default, min |-> min, max |-> max,
   choices |-> choices, description |-> ""]

\* BackendBinding(backend, func, param_map, input_map)
B(backend, func, param_map, input_map) ==
  [backend |-> backend, func |-> func, param_map |-> param_map, input_map |-> input_map]

\* NLPHints(synonyms_by_lang, regex_templates)
NL(synonyms_by_lang, regex_templates) ==
  [synonyms_by_lang |-> synonyms_by_lang, regex_templates |-> regex_templates]

\* IndicatorDef
IndicatorDef(name, inputs, params, synonyms, source_labels, default_thresholds, bindings, nlp) ==
  [name |-> name, inputs |-> inputs, params |-> params, synonyms |-> synonyms,
   source_labels |-> source_labels, default_thresholds |-> default_thresholds,
   bindings |-> bindings, nlp |-> nlp]

\* IndicatorDef.param_defaults
param_defaults(idef) == [i \in DOMAIN idef.params |-> KV(idef.params[i].name, idef.params[i].default)]

-----------------------------------------------------------------------------
(* The built-in catalog.                                                   *)

\* _def(name="RSI", ...): the arguments of the built-in as written.
Def_RSI ==
  [
    name |-> "RSI",
    inputs |-> <<"close">>,
    params |-> <<P("window", "int", IntV(14), IntV(1), NoneV, StrV("Averaging length"))>>,
    synonyms |-> <<"relative strength index">>,
    src_labels |-> <<KV("pandas_ta", "rsi"), KV("talib", "RSI"), KV("tradingview", "RSI")>>,
    defaults |-> <<KV("overbought", FloatV(70000)), KV("oversold", FloatV(30000))>>,
    synonyms_by_lang |-> <<KV("en", <<"RSI", "Relative Strength Index">>), KV("de", <<"Relative-Stärke-Index", "RSI">>), KV("it", <<"Indice di Forza Relativa", "RSI">>)>>,
    regex_templates |-> <<"\\bRSI\\s*\\(\\s*{WINDOW}\\s*\\)", "\\bRelative\\s+Strength\\s+Index\\b\\s*\\(\\s*{WINDOW}\\s*\\)", "\\bRSI\\b\\s*(?:<=|<|>=|>)\\s*{THRESHOLD}">>,
    func |-> "rsi",
    param_map |-> <<KV("window", "length")>>,
    input_map |-> <<KV("close", "close")>> ]

\* _def(name="MFI", ...): the arguments of the built-in as written.
Def_MFI ==
  [
    name |-> "MFI",
    inputs |-> <<"high", "low", "close", "volume">>,
    params |-> <<P("window", "int", IntV(14), IntV(1), NoneV, StrV("Window"))>>,
    synonyms |-> <<"money flow index">>,
    src_labels |-> <<KV("pandas_ta", "mfi"), KV("talib", "MFI"), KV("tradingview", "MFI")>>,
    defaults |-> <<KV("overbought", FloatV(80000)), KV("oversold", FloatV(20000))>>,
    synonyms_by_lang |-> <<KV("en", <<"MFI", "Money Flow Index">>)>>,
    regex_templates |-> <<"\\bMFI\\s*\\(\\s*{WINDOW}\\s*\\)", "\\bMFI\\b\\s*(?:<=|<|>=|>)\\s*{THRESHOLD}">>,
    func |-> "mfi",
    param_map |-> <<KV("window", "length")>>,
    input_map |-> <<KV("high", "high"), KV("low", "low"), KV("close", "close"), KV("volume", "volume")>> ]

\* _def(name="MACD", ...): the arguments of the built-in as written.
Def_MACD ==
  [
    name |-> "MACD",
    inputs |-> <<"close">>,
    params |-> <<P("fast", "int", IntV(12), IntV(1), NoneV, StrV("Fast EMA length")), P("slow", "int", IntV(26), IntV(1), NoneV, StrV("Slow EMA length")), P("signal", "int", IntV(9), IntV(1), NoneV, StrV("Signal EMA length"))>>,
    synonyms |-> <<"moving average convergence divergence">>,
    src_labels |-> <<KV("pandas_ta", "macd"), KV("talib", "MACD"), KV("tradingview", "MACD")>>,
    defaults |-> <<KV("zero_line", FloatV(0))>>,
    synonyms_by_lang |-> <<KV("en", <<"MACD", "Moving Average Convergence Divergence">>)>>,
    regex_templates |-> <<"\\bMACD\\s*\\(\\s*{FAST}\\s*,\\s*{SLOW}\\s*,\\s*{SIGNAL}\\s*\\)", "\\bMACD(?:h)?\\b\\s*(?:<=|<|>=|>)\\s*{THRESHOLD}">>,
    func |-> "macd",
    param_map |-> <<KV("fast", "fast"), KV("slow", "slow"), KV("signal", "signal")>>,
    input_map |-> <<KV("close", "close")>> ]

\* _def(name="PPO", ...): the arguments of the built-in as written.
Def_PPO ==
  [
    name |-> "PPO",
    inputs |-> <<"close">>,
    params |-> <<P("fast", "int", IntV(12), IntV(1), NoneV, StrV("Fast EMA")), P("slow", "int", IntV(26), IntV(1), NoneV, StrV("Slow EMA")), P("signal", "int", IntV(9), IntV(1), NoneV, StrV("Signal EMA"))>>,
    synonyms |-> <<"percentage price oscillator">>,
    src_labels |-> <<KV("pandas_ta", "ppo"), KV("talib", "PPO"), KV("tradingview", "PPO")>>,
    defaults |-> <<KV("zero_line", FloatV(0))>>,
    synonyms_by_lang |-> <<KV("en", <<"PPO", "Percentage Price Oscillator">>)>>,
    regex_templates |-> <<"\\bPPO\\s*\\(\\s*{FAST}\\s*,\\s*{SLOW}\\s*,\\s*{SIGNAL}\\s*\\)", "\\bPPO(?:h)?\\b\\s*(?:<=|<|>=|>)\\s*{THRESHOLD}">>,
    func |-> "ppo",
    param_map |-> <<KV("fast", "fast"), KV("slow", "slow"), KV("signal", "signal")>>,
    input_map |-> <<KV("close", "close")>> ]

\* _def(name="MOM", ...): the arguments of the built-in as written.
Def_MOM ==
  [
    name |-> "MOM",
    inputs |-> <<"close">>,
    params |-> <<P("window", "int", IntV(10), IntV(1), NoneV, StrV("Lookback"))>>,
    synonyms |-> <<"momentum">>,
    src_labels |-> <<KV("pandas_ta", "mom"), KV("talib", "MOM"), KV("tradingview", "MOM")>>,
    defaults |-> <<KV("zero_line", FloatV(0))>>,
    synonyms_by_lang |-> <<KV("en", <<"Momentum", "MOM">>)>>,
    regex_templates |-> <<"\\bMOM\\s*\\(\\s*{WINDOW}\\s*\\)">>,
    func |-> "mom",
    param_map |-> <<KV("window", "length")>>,
    input_map |-> <<KV("close", "close")>> ]

\* _def(name="ROC", ...): the arguments of the built-in as written.
Def_ROC ==
  [
    name |-> "ROC",
    inputs |-> <<"close">>,
    params |-> <<P("window", "int", IntV(10), IntV(1), NoneV, StrV("Lookback"))>>,
    synonyms |-> <<"rate of change", "roc pct">>,
    src_labels |-> <<KV("pandas_ta", "roc"), KV("talib", "ROC"), KV("tradingview", "ROC")>>,
    defaults |-> <<KV("zero_line", FloatV(0))>>,
    synonyms_by_lang |-> <<KV("en", <<"ROC", "Rate of Change">>)>>,
    regex_templates |-> <<"\\bROC\\s*\\(\\s*{WINDOW}\\s*\\)">>,
    func |-> "roc",
    param_map |-> <<KV("window", "length")>>,
    input_map |-> <<KV("close", "close")>> ]

\* _def(name="TSI", ...): the arguments of the built-in as written.
Def_TSI ==
  [
    name |-> "TSI",
    inputs |-> <<"close">>,
    params |-> <<P("fast", "int", IntV(13), IntV(1), NoneV, StrV("Fast")), P("slow", "int", IntV(25), IntV(1), NoneV, StrV("Slow"))>>,
    synonyms |-> <<"true strength index">>,
    src_labels |-> <<KV("pandas_ta", "tsi"), KV("tradingview", "TSI")>>,
    defaults |-> <<KV("zero_line", FloatV(0))>>,
    synonyms_by_lang |-> <<KV("en", <<"TSI", "True Strength Index">>)>>,
    regex_templates |-> <<"\\bTSI\\s*\\(\\s*{FAST}\\s*,\\s*{SLOW}\\s*\\)">>,
    func |-> "tsi",
    param_map |-> <<KV("fast", "fast"), KV("slow", "slow")>>,
    input_map |-> <<KV("close", "close")>> ]

\* _def(name="TRIX", ...): the arguments of the built-in as written.
Def_TRIX ==
  [
    name |-> "TRIX",
    inputs |-> <<"close">>,
    params |-> <<P("window", "int", IntV(15), IntV(1), NoneV, StrV("Window"))>>,
    synonyms |-> <<"triple ema oscillator", "triple ema rate">>,
    src_labels |-> <<KV("pandas_ta", "trix"), KV("talib", "TRIX"), KV("tradingview", "TRIX")>>,
    defaults |-> <<KV("zero_line", FloatV(0))>>,
    synonyms_by_lang |-> <<KV("en", <<"TRIX">>)>>,
    regex_templates |-> <<"\\bTRIX\\s*\\(\\s*{WINDOW}\\s*\\)">>,
    func |-> "trix",
    param_map |-> <<KV("window", "length")>>,
    input_map |-> <<KV("close", "close")>> ]

\* _def(name="CCI", ...): the arguments of the built-in as written.
Def_CCI ==
  [
    name |-> "CCI",
    inputs |-> <<"high", "low", "close">>,
    params |-> <<P("window", "int", IntV(20), IntV(1), NoneV, StrV("Window")), P("c", "float", FloatV(15), FloatV(1), FloatV(1000), StrV("Constant"))>>,
    synonyms |-> <<"commodity channel index">>,
    src_labels |-> <<KV("pandas_ta", "cci"), KV("talib", "CCI"), KV("tradingview", "CCI")>>,
    defaults |-> <<KV("overbought", FloatV(100000)), KV("oversold", FloatV(-100000))>>,
    synonyms_by_lang |-> <<KV("en", <<"CCI", "Commodity Channel Index">>)>>,
    regex_templates |-> <<"\\bCCI\\s*\\(\\s*{WINDOW}\\s*\\)">>,
    func |-> "cci",
    param_map |-> <<KV("window", "length"), KV("c", "c")>>,
    input_map |-> <<KV("high", "high"), KV("low", "low"), KV("close", "close")>> ]

\* _def(name="CMO", ...): the arguments of the built-in as written.
Def_CMO ==
  [
    name |-> "CMO",
    inputs |-> <<"close">>,
    params |-> <<P("window", "int", IntV(14), IntV(1), NoneV, StrV("Window"))>>,
    synonyms |-> <<"chande momentum oscillator">>,
    src_labels |-> <<KV("pandas_ta", "cmo"), KV("tradingview", "CMO")>>,
    defaults |-> <<KV("overbought", FloatV(50000)), KV("oversold", FloatV(-50000))>>,
    synonyms_by_lang |-> <<KV("en", <<"CMO", "Chande Momentum Oscillator">>)>>,
    regex_templates |-> <<"\\bCMO\\s*\\(\\s*{WINDOW}\\s*\\)">>,
    func |-> "cmo",
    param_map |-> <<KV("window", "length")>>,
    input_map |-> <<KV("close", "close")>> ]

\* _def(name="WilliamsR", ...): the arguments of the built-in as written.
Def_WilliamsR ==
  [
    name |-> "WilliamsR",
    inputs |-> <<"high", "low", "close">>,
    params |-> <<P("window", "int", IntV(14), IntV(1), NoneV, StrV("Window"))>>,
    synonyms |-> <<"williams r", "%r", "williams percent r">>,
    src_labels |-> <<KV("pandas_ta", "willr"), KV("talib", "WILLR"), KV("tradingview", "W%R")>>,
    defaults |-> <<KV("overbought", FloatV(-20000)), KV("oversold", FloatV(-80000))>>,
    synonyms_by_lang |-> <<KV("en", <<"Williams %R", "W%R">>)>>,
    regex_templates |-> <<"\\bW(?:illiams)?\\s*%?R\\s*\\(\\s*{WINDOW}\\s*\\)">>,
    func |-> "willr",
    param_map |-> <<KV("window", "length")>>,
    input_map |-> <<KV("high", "high"), KV("low", "low"), KV("close", "close")>> ]

\* _def(name="Stoch", ...): the arguments of the built-in as written.
Def_Stoch ==
  [
    name |-> "Stoch",
    inputs |-> <<"high", "low", "close">>,
    params |-> <<P("k", "int", IntV(14), IntV(1), NoneV, StrV("K length")), P("d", "int", IntV(3), IntV(1), NoneV, StrV("D length")), P("smooth_k", "int", IntV(3), IntV(1), NoneV, StrV("Smooth K"))>>,
    synonyms |-> <<"stochastic", "stochastic oscillator", "stoch full">>,
    src_labels |-> <<KV("pandas_ta", "stoch"), KV("talib", "STOCH"), KV("tradingview", "Stoch")>>,
    defaults |-> <<KV("overbought", FloatV(80000)), KV("oversold", FloatV(20000))>>,
    synonyms_by_lang |-> <<KV("en", <<"Stochastic Oscillator", "Stoch">>)>>,
    regex_templates |-> <<"\\bStoch(?:astic)?\\s*\\(\\s*\\d+.*\\)", "\\b%K\\b|\\b%D\\b", "\\bStoch\\b\\s*(?:<=|<|>=|>)\\s*{THRESHOLD}">>,
    func |-> "stoch",
    param_map |-> <<KV("k", "k"), KV("d", "d"), KV("smooth_k", "smooth_k")>>,
    input_map |-> <<KV("high", "high"), KV("low", "low"), KV("close", "close")>> ]

\* _def(name="StochRSI", ...): the arguments of the built-in as written.
Def_StochRSI ==
  [
    name |-> "StochRSI",
    inputs |-> <<"close">>,
    params |-> <<P("window", "int", IntV(14), IntV(1), NoneV, StrV("RSI window")), P("k", "int", IntV(14), IntV(1), NoneV, StrV("%K length")), P("d", "int", IntV(3), IntV(1), NoneV, StrV("%D length"))>>,
    synonyms |-> <<"stoch rsi", "stochrsi">>,
    src_labels |-> <<KV("pandas_ta", "stochrsi"), KV("tradingview", "Stoch RSI")>>,
    defaults |-> <<KV("overbought", FloatV(800)), KV("oversold", FloatV(200))>>,
    synonyms_by_lang |-> <<KV("en", <<"Stoch RSI", "Stochastic RSI">>)>>,
    regex_templates |-> <<"\\bStoch(?:astic)?\\s*RSI\\b">>,
    func |-> "stochrsi",
    param_map |-> <<KV("window", "length"), KV("k", "rsi_length"), KV("d", "d")>>,
    input_map |-> <<KV("close", "close")>> ]

\* _def(name="Aroon", ...): the arguments of the built-in as written.
Def_Aroon ==
  [
    name |-> "Aroon",
    inputs |-> <<"close">>,
    params |-> <<P("window", "int", IntV(25), IntV(1), NoneV, StrV("Window"))>>,
    synonyms |-> <<"aroon oscillator">>,
    src_labels |-> <<KV("pandas_ta", "aroon"), KV("tradingview", "Aroon")>>,
    defaults |-> <<KV("overbought", FloatV(80000)), KV("oversold", FloatV(20000))>>,
    synonyms_by_lang |-> <<KV("en", <<"Aroon", "Aroon Oscillator">>)>>,
    regex_templates |-> <<"\\bAroon\\s*\\(\\s*{WINDOW}\\s*\\)">>,
    func |-> "aroon",
    param_map |-> <<KV("window", "length")>>,
    input_map |-> <<KV("close", "close")>> ]

\* _def(name="DPO", ...): the arguments of the built-in as written.
Def_DPO ==
  [
    name |-> "DPO",
    inputs |-> <<"close">>,
    params |-> <<P("window", "int", IntV(20), IntV(1), NoneV, StrV("Window"))>>,
    synonyms |-> <<"detrended price oscillator">>,
    src_labels |-> <<KV("pandas_ta", "dpo"), KV("tradingview", "DPO")>>,
    defaults |-> <<KV("zero_line", FloatV(0))>>,
    synonyms_by_lang |-> <<KV("en", <<"DPO">>)>>,
    regex_templates |-> <<"\\bDPO\\s*\\(\\s*{WINDOW}\\s*\\)">>,
    func |-> "dpo",
    param_map |-> <<KV("window", "length")>>,
    input_map |-> <<KV("close", "close")>> ]

\* _def(name="Vortex", ...): the arguments of the built-in as written.
Def_Vortex ==
  [
    name |-> "Vortex",
    inputs |-> <<"high", "low", "close">>,
    params |-> <<P("window", "int", IntV(14), IntV(1), NoneV, StrV("Window"))>>,
    synonyms |-> <<"vi">>,
    src_labels |-> <<KV("pandas_ta", "vortex"), KV("tradingview", "Vortex")>>,
    defaults |-> <<KV("cross_signal", FloatV(1000))>>,
    synonyms_by_lang |-> <<KV("en", <<"Vortex", "+VI", "-VI">>)>>,
    regex_templates |-> <<"\\bVortex\\s*\\(\\s*{WINDOW}\\s*\\)">>,
    func |-> "vortex",
    param_map |-> <<KV("window", "length")>>,
    input_map |-> <<KV("high", "high"), KV("low", "low"), KV("close", "close")>> ]

\* _def(name="Coppock", ...): the arguments of the built-in as written.
Def_Coppock ==
  [
    name |-> "Coppock",
    inputs |-> <<"close">>,
    params |-> <<P("wlong", "int", IntV(11), IntV(1), NoneV, StrV("Long ROC")), P("wshort", "int", IntV(14), IntV(1), NoneV, StrV("Short ROC")), P("wma", "int", IntV(10), IntV(1), NoneV, StrV("WMA length"))>>,
    synonyms |-> <<"coppock curve">>,
    src_labels |-> <<KV("pandas_ta", "coppock"), KV("tradingview", "Coppock")>>,
    defaults |-> <<KV("zero_line", FloatV(0))>>,
    synonyms_by_lang |-> <<KV("en", <<"Coppock Curve">>)>>,
    regex_templates |-> <<"\\bCoppock\\b">>,
    func |-> "coppock",
    param_map |-> <<KV("wlong", "wlong"), KV("wshort", "wshort"), KV("wma", "wma")>>,
    input_map |-> <<KV("close", "close")>> ]

\* _def(name="SMA", ...): the arguments of the built-in as written.
Def_SMA ==
  [
    name |-> "SMA",
    inputs |-> <<"close">>,
    params |-> <<P("window", "int", IntV(20), IntV(1), NoneV, StrV("Window length"))>>,
    synonyms |-> <<"simple moving average", "moving average", "ma">>,
    src_labels |-> <<KV("pandas_ta", "sma"), KV("talib", "SMA"), KV("tradingview", "SMA")>>,
    defaults |-> <<>>,
    synonyms_by_lang |-> <<KV("en", <<"SMA", "Simple Moving Average">>)>>,
    regex_templates |-> <<"\\bSMA\\s*\\(\\s*{WINDOW}\\s*\\)">>,
    func |-> "sma",
    param_map |-> <<KV("window", "length")>>,
    input_map |-> <<KV("close", "close")>> ]

\* _def(name="EMA", ...): the arguments of the built-in as written.
Def_EMA ==
  [
    name |-> "EMA",
    inputs |-> <<"close">>,
    params |-> <<P("window", "int", IntV(20), IntV(1), NoneV, StrV("Window length"))>>,
    synonyms |-> <<"exponential moving average">>,
    src_labels |-> <<KV("pandas_ta", "ema"), KV("talib", "EMA"), KV("tradingview", "EMA")>>,
    defaults |-> <<>>,
    synonyms_by_lang |-> <<KV("en", <<"EMA", "Exponential Moving Average">>)>>,
    regex_templates |-> <<"\\bEMA\\s*\\(\\s*{WINDOW}\\s*\\)">>,
    func |-> "ema",
    param_map |-> <<KV("window", "length")>>,
    input_map |-> <<KV("close", "close")>> ]

\* _def(name="WMA", ...): the arguments of the built-in as written.
Def_WMA ==
  [
    name |-> "WMA",
    inputs |-> <<"close">>,
    params |-> <<P("window", "int", IntV(20), IntV(1), NoneV, StrV("Window"))>>,
    synonyms |-> <<"weighted moving average">>,
    src_labels |-> <<KV("pandas_ta", "wma"), KV("talib", "WMA"), KV("tradingview", "WMA")>>,
    defaults |-> <<>>,
    synonyms_by_lang |-> <<KV("en", <<"WMA", "Weighted Moving Average">>)>>,
    regex_templates |-> <<"\\bWMA\\s*\\(\\s*{WINDOW}\\s*\\)">>,
    func |-> "wma",
    param_map |-> <<KV("window", "length")>>,
    input_map |-> <<KV("close", "close")>> ]

\* _def(name="HMA", ...): the arguments of the built-in as written.
Def_HMA ==
  [
    name |-> "HMA",
    inputs |-> <<"close">>,
    params |-> <<P("window", "int", IntV(20), IntV(1), NoneV, StrV("Window"))>>,
    synonyms |-> <<"hull moving average">>,
    src_labels |-> <<KV("pandas_ta", "hma"), KV("tradingview", "HMA")>>,
    defaults |-> <<>>,
    synonyms_by_lang |-> <<KV("en", <<"Hull Moving Average", "HMA">>)>>,
    regex_templates |-> <<"\\bHMA\\s*\\(\\s*{WINDOW}\\s*\\)">>,
    func |-> "hma",
    param_map |-> <<KV("window", "length")>>,
    input_map |-> <<KV("close", "close")>> ]

\* _def(name="RMA", ...): the arguments of the built-in as written.
Def_RMA ==
  [
    name |-> "RMA",
    inputs |-> <<"close">>,
    params |-> <<P("window", "int", IntV(14), IntV(1), NoneV, StrV("Window"))>>,
    synonyms |-> <<"wilder", "rsi_ma">>,
    src_labels |-> <<KV("pandas_ta", "rma"), KV("tradingview", "RMA")>>,
    defaults |-> <<>>,
    synonyms_by_lang |-> <<KV("en", <<"RMA", "Wilder's Moving Average">>)>>,
    regex_templates |-> <<"\\bRMA\\s*\\(\\s*{WINDOW}\\s*\\)">>,
    func |-> "rma",
    param_map |-> <<KV("window", "length")>>,
    input_map |-> <<KV("close", "close")>> ]

\* _def(name="KAMA", ...): the arguments of the built-in as written.
Def_KAMA ==
  [
    name |-> "KAMA",
    inputs |-> <<"close">>,
    params |-> <<P("window", "int", IntV(10), IntV(1), NoneV, StrV("Efficiency window")), P("fast", "int", IntV(2), IntV(1), NoneV, StrV("Fast EMA")), P("slow", "int", IntV(30), IntV(1), NoneV, StrV("Slow EMA"))>>,
    synonyms |-> <<"kaufman adaptive moving average", "kaufman">>,
    src_labels |-> <<KV("pandas_ta", "kama"), KV("tradingview", "KAMA")>>,
    defaults |-> <<>>,
    synonyms_by_lang |-> <<KV("en", <<"KAMA", "Kaufman Adaptive Moving Average">>)>>,
    regex_templates |-> <<"\\bKAMA\\s*\\(\\s*{WINDOW}\\s*,\\s*{FAST}\\s*,\\s*{SLOW}\\s*\\)">>,
    func |-> "kama",
    param_map |-> <<KV("window", "length"), KV("fast", "fast"), KV("slow", "slow")>>,
    input_map |-> <<KV("close", "close")>> ]

\* _def(name="BBANDS", ...): the arguments of the built-in as written.
Def_BBANDS ==
  [
    name |-> "BBANDS",
    inputs |-> <<"close">>,
    params |-> <<P("window", "int", IntV(20), IntV(1), NoneV, StrV("SMA window")), P("stdev", "float", FloatV(2000), FloatV(500), FloatV(5000), StrV("StdDev mult"))>>,
    synonyms |-> <<"bollinger bands", "bb">>,
    src_labels |-> <<KV("pandas_ta", "bbands"), KV("talib", "BBANDS"), KV("tradingview", "BB")>>,
    defaults |-> <<>>,
    synonyms_by_lang |-> <<KV("en", <<"Bollinger Bands", "BB">>)>>,
    regex_templates |-> <<"\\bBollinger\\s+Bands\\b", "\\bBB\\s*\\(\\s*{WINDOW}\\s*,\\s*{STDEV}\\s*\\)">>,
    func |-> "bbands",
    param_map |-> <<KV("window", "length"), KV("stdev", "std")>>,
    input_map |-> <<KV("close", "close")>> ]

\* _def(name="ATR", ...): the arguments of the built-in as written.
Def_ATR ==
  [
    name |-> "ATR",
    inputs |-> <<"high", "low", "close">>,
    params |-> <<P("window", "int", IntV(14), IntV(1), NoneV, StrV("ATR window"))>>,
    synonyms |-> <<"average true range">>,
    src_labels |-> <<KV("pandas_ta", "atr"), KV("talib", "ATR"), KV("tradingview", "ATR")>>,
    defaults |-> <<>>,
    synonyms_by_lang |-> <<KV("en", <<"ATR", "Average True Range">>)>>,
    regex_templates |-> <<"\\bATR\\s*\\(\\s*{WINDOW}\\s*\\)">>,
    func |-> "atr",
    param_map |-> <<KV("window", "length")>>,
    input_map |-> <<KV("high", "high"), KV("low", "low"), KV("close", "close")>> ]

\* _def(name="KC", ...): the arguments of the built-in as written.
Def_KC ==
  [
    name |-> "KC",
    inputs |-> <<"high", "low", "close">>,
    params |-> <<P("window", "int", IntV(20), IntV(1), NoneV, StrV("EMA length")), P("atr_window", "int", IntV(10), IntV(1), NoneV, StrV("ATR length")), P("mult", "float", FloatV(2000), FloatV(500), FloatV(5000), StrV("ATR multiplier"))>>,
    synonyms |-> <<"keltner channels", "keltner">>,
    src_labels |-> <<KV("pandas_ta", "kc"), KV("tradingview", "KC")>>,
    defaults |-> <<>>,
    synonyms_by_lang |-> <<KV("en", <<"Keltner Channels", "KC">>)>>,
    regex_templates |-> <<"\\bKeltner\\s+Channels\\b">>,
    func |-> "kc",
    param_map |-> <<KV("window", "length"), KV("atr_window", "length_atr"), KV("mult", "scalar")>>,
    input_map |-> <<KV("high", "high"), KV("low", "low"), KV("close", "close")>> ]

\* _def(name="Donchian", ...): the arguments of the built-in as written.
Def_Donchian ==
  [
    name |-> "Donchian",
    inputs |-> <<"high", "low">>,
    params |-> <<P("window", "int", IntV(20), IntV(1), NoneV, StrV("Window"))>>,
    synonyms |-> <<"donchian channels", "dc">>,
    src_labels |-> <<KV("pandas_ta", "donchian"), KV("tradingview", "Donchian")>>,
    defaults |-> <<>>,
    synonyms_by_lang |-> <<KV("en", <<"Donchian Channels", "Donchian">>)>>,
    regex_templates |-> <<"\\bDonchian\\s*\\(\\s*{WINDOW}\\s*\\)">>,
    func |-> "donchian",
    param_map |-> <<KV("window", "lower_length")>>,
    input_map |-> <<KV("high", "high"), KV("low", "low")>> ]

\* _def(name="Ichimoku", ...): the arguments of the built-in as written.
Def_Ichimoku ==
  [
    name |-> "Ichimoku",
    inputs |-> <<"high", "low", "close">>,
    params |-> <<P("tenkan", "int", IntV(9), IntV(1), NoneV, StrV("Conversion line")), P("kijun", "int", IntV(26), IntV(1), NoneV, StrV("Base line")), P("senkou", "int", IntV(52), IntV(1), NoneV, StrV("Span B"))>>,
    synonyms |-> <<"ichimoku cloud", "ichimoku kinko hyo", "ichimoku kinko">>,
    src_labels |-> <<KV("pandas_ta", "ichimoku"), KV("tradingview", "Ichimoku")>>,
    defaults |-> <<>>,
    synonyms_by_lang |-> <<KV("en", <<"Ichimoku Cloud", "Ichimoku">>)>>,
    regex_templates |-> <<"\\bIchimoku\\b">>,
    func |-> "ichimoku",
    param_map |-> <<KV("tenkan", "tenkan"), KV("kijun", "kijun"), KV("senkou", "senkou")>>,
    input_map |-> <<KV("high", "high"), KV("low", "low"), KV("close", "close")>> ]

\* _def(name="Supertrend", ...): the arguments of the built-in as written.
Def_Supertrend ==
  [
    name |-> "Supertrend",
    inputs |-> <<"high", "low", "close">>,
    params |-> <<P("atr_window", "int", IntV(7), IntV(1), NoneV, StrV("ATR window")), P("mult", "float", FloatV(3000), FloatV(500), FloatV(10000), StrV("Multiplier"))>>,
    synonyms |-> <<"super trend", "supertrend">>,
    src_labels |-> <<KV("pandas_ta", "supertrend"), KV("tradingview", "Supertrend")>>,
    defaults |-> <<>>,
    synonyms_by_lang |-> <<KV("en", <<"Supertrend">>)>>,
    regex_templates |-> <<"\\bSupertrend\\b">>,
    func |-> "supertrend",
    param_map |-> <<KV("atr_window", "length"), KV("mult", "mult")>>,
    input_map |-> <<KV("high", "high"), KV("low", "low"), KV("close", "close")>> ]

\* _def(name="PSAR", ...): the arguments of the built-in as written.
Def_PSAR ==
  [
    name |-> "PSAR",
    inputs |-> <<"high", "low">>,
    params |-> <<P("af_start", "float", FloatV(20), FloatV(1), FloatV(1000), StrV("Start AF")), P("af_step", "float", FloatV(20), FloatV(1), FloatV(1000), StrV("AF step")), P("af_max", "float", FloatV(200), FloatV(10), FloatV(1000), StrV("Max AF"))>>,
    synonyms |-> <<"parabolic sar", "sar">>,
    src_labels |-> <<KV("pandas_ta", "psar"), KV("talib", "SAR"), KV("tradingview", "SAR")>>,
    defaults |-> <<>>,
    synonyms_by_lang |-> <<KV("en", <<"Parabolic SAR", "SAR">>)>>,
    regex_templates |-> <<"\\bP(?:arabolic\\s+)?SAR\\b">>,
    func |-> "psar",
    param_map |-> <<KV("af_start", "af"), KV("af_step", "max_af"), KV("af_max", "max_af")>>,
    input_map |-> <<KV("high", "high"), KV("low", "low")>> ]

\* _def(name="OBV", ...): the arguments of the built-in as written.
Def_OBV ==
  [
    name |-> "OBV",
    inputs |-> <<"close", "volume">>,
    params |-> <<>>,
    synonyms |-> <<"on balance volume">>,
    src_labels |-> <<KV("pandas_ta", "obv"), KV("talib", "OBV"), KV("tradingview", "OBV")>>,
    defaults |-> <<>>,
    synonyms_by_lang |-> <<KV("en", <<"OBV", "On-Balance Volume">>)>>,
    regex_templates |-> <<"\\bOBV\\b">>,
    func |-> "obv",
    param_map |-> <<>>,
    input_map |-> <<KV("close", "close"), KV("volume", "volume")>> ]

\* _def(name="CMF", ...): the arguments of the built-in as written.
Def_CMF ==
  [
    name |-> "CMF",
    inputs |-> <<"high", "low", "close", "volume">>,
    params |-> <<P("window", "int", IntV(20), IntV(1), NoneV, StrV("Window"))>>,
    synonyms |-> <<"chaikin money flow">>,
    src_labels |-> <<KV("pandas_ta", "cmf"), KV("tradingview", "CMF")>>,
    defaults |-> <<KV("zero_line", FloatV(0))>>,
    synonyms_by_lang |-> <<KV("en", <<"CMF", "Chaikin Money Flow">>)>>,
    regex_templates |-> <<"\\bCMF\\s*\\(\\s*{WINDOW}\\s*\\)">>,
    func |-> "cmf",
    param_map |-> <<KV("window", "length")>>,
    input_map |-> <<KV("high", "high"), KV("low", "low"), KV("close", "close"), KV("volume", "volume")>> ]

\* _def(name="ADL", ...): the arguments of the built-in as written.
Def_ADL ==
  [
    name |-> "ADL",
    inputs |-> <<"high", "low", "close", "volume">>,
    params |-> <<>>,
    synonyms |-> <<"chaikin ad line", "accumulation distribution">>,
    src_labels |-> <<KV("pandas_ta", "ad"), KV("tradingview", "ADL")>>,
    defaults |-> <<>>,
    synonyms_by_lang |-> <<KV("en", <<"ADL", "Accumulation/Distribution">>)>>,
    regex_templates |-> <<"\\bADL\\b">>,
    func |-> "ad",
    param_map |-> <<>>,
    input_map |-> <<KV("high", "high"), KV("low", "low"), KV("close", "close"), KV("volume", "volume")>> ]

\* _def(name="NVI", ...): the arguments of the built-in as written.
Def_NVI ==
  [
    name |-> "NVI",
    inputs |-> <<"close", "volume">>,
    params |-> <<>>,
    synonyms |-> <<"negative volume index">>,
    src_labels |-> <<KV("pandas_ta", "nvi"), KV("tradingview", "NVI")>>,
    defaults |-> <<>>,
    synonyms_by_lang |-> <<KV("en", <<"NVI", "Negative Volume Index">>)>>,
    regex_templates |-> <<"\\bNVI\\b">>,
    func |-> "nvi",
    param_map |-> <<>>,
    input_map |-> <<KV("close", "close"), KV("volume", "volume")>> ]

\* _def(name="PVI", ...): the arguments of the built-in as written.
Def_PVI ==
  [
    name |-> "PVI",
    inputs |-> <<"close", "volume">>,
    params |-> <<>>,
    synonyms |-> <<"positive volume index">>,
    src_labels |-> <<KV("pandas_ta", "pvi"), KV("tradingview", "PVI")>>,
    defaults |-> <<>>,
    synonyms_by_lang |-> <<KV("en", <<"PVI", "Positive Volume Index">>)>>,
    regex_templates |-> <<"\\bPVI\\b">>,
    func |-> "pvi",
    param_map |-> <<>>,
    input_map |-> <<KV("close", "close"), KV("volume", "volume")>> ]

\* _def(name="VWAP", ...): the arguments of the built-in as written.
Def_VWAP ==
  [
    name |-> "VWAP",
    inputs |-> <<"high", "low", "close", "volume">>,
    params |-> <<>>,
    synonyms |-> <<"vwap">>,
    src_labels |-> <<KV("pandas_ta", "vwap"), KV("tradingview", "VWAP")>>,
    defaults |-> <<>>,
    synonyms_by_lang |-> <<KV("en", <<"VWAP">>)>>,
    regex_templates |-> <<"\\bVWAP\\b">>,
    func |-> "vwap",
    param_map |-> <<>>,
    input_map |-> <<KV("high", "high"), KV("low", "low"), KV("close", "close"), KV("volume", "volume")>> ]

\* _def(name="EOM", ...): the arguments of the built-in as written.
Def_EOM ==
  [
    name |-> "EOM",
    inputs |-> <<"high", "low", "volume">>,
    params |-> <<P("window", "int", IntV(14), IntV(1), NoneV, StrV("Window"))>>,
    synonyms |-> <<"ease of movement">>,
    src_labels |-> <<KV("pandas_ta", "eom"), KV("tradingview", "EOM")>>,
    defaults |-> <<KV("zero_line", FloatV(0))>>,
    synonyms_by_lang |-> <<KV("en", <<"EOM", "Ease of Movement">>)>>,
    regex_templates |-> <<"\\bEOM\\s*\\(\\s*{WINDOW}\\s*\\)">>,
    func |-> "eom",
    param_map |-> <<KV("window", "length")>>,
    input_map |-> <<KV("high", "high"), KV("low", "low"), KV("volume", "volume")>> ]

\* _def(name="ADX", ...): the arguments of the built-in as written.
Def_ADX ==
  [
    name |-> "ADX",
    inputs |-> <<"high", "low", "close">>,
    params |-> <<P("window", "int", IntV(14), IntV(1), NoneV, StrV("ADX length"))>>,
    synonyms |-> <<"average directional index", "dmi">>,
    src_labels |-> <<KV("pandas_ta", "adx"), KV("talib", "ADX"), KV("tradingview", "ADX")>>,
    defaults |-> <<KV("threshold", FloatV(25000))>>,
    synonyms_by_lang |-> <<KV("en", <<"ADX", "Average Directional Index", "DMI">>)>>,
    regex_templates |-> <<"\\bADX\\s*\\(\\s*{WINDOW}\\s*\\)">>,
    func |-> "adx",
    param_map |-> <<KV("window", "length")>>,
    input_map |-> <<KV("high", "high"), KV("low", "low"), KV("close", "close")>> ]

\* The _def(...) calls of _load_builtin_definitions, in source order.
BuiltinArgs ==
  <<Def_RSI, Def_MFI, Def_MACD, Def_PPO, Def_MOM, Def_ROC,
    Def_TSI, Def_TRIX, Def_CCI, Def_CMO, Def_WilliamsR, Def_Stoch,
    Def_StochRSI, Def_Aroon, Def_DPO, Def_Vortex, Def_Coppock, Def_SMA,
    Def_EMA, Def_WMA, Def_HMA, Def_RMA, Def_KAMA, Def_BBANDS,
    Def_ATR, Def_KC, Def_Donchian, Def_Ichimoku, Def_Supertrend, Def_PSAR,
    Def_OBV, Def_CMF, Def_ADL, Def_NVI, Def_PVI, Def_VWAP,
    Def_EOM, Def_ADX>>
-----------------------------------------------------------------------------
(* Registration and resolution.                                            *)

\* The definition _def(...) hands to register: one pandas_ta binding.
_def(a) ==
  IndicatorDef(a.name, a.inputs, a.params, a.synonyms, a.src_labels, a.defaults,
               <<B("pandas_ta", a.func, a.param_map, a.input_map)>>,
               NL(a.synonyms_by_lang, a.regex_templates))

Range(seq) == {seq[i] : i \in DOMAIN seq}

\* all_aliases of register: the name, the synonyms, every per-language
\* synonym and every non-empty source label.
all_aliases(idef) ==
  {idef.name} \cup Range(idef.synonyms)
    \cup UNION {Range(arr) : arr \in Values(idef.nlp.synonyms_by_lang)}
    \cup {v \in Values(idef.source_labels) : v # ""}

\* register without the duplicate check: a second definition replaces the first.
register_overwrite(defs, syn, idef) ==
  LET keys == {lower(alias) : alias \in all_aliases(idef)}
  IN [ok |-> TRUE,
      defs |-> (idef.name :> idef) @@ defs,
      syn |-> [k \in keys |-> idef.name] @@ syn,
      err |-> NoneV]

\* register indexing every alias as it is written.
register_as_written(defs, syn, idef) ==
  IF idef.name \in DOMAIN defs
  THEN [ok |-> FALSE, defs |-> defs, syn |-> syn,
        err |-> Raise("ValueError", "register",
                      "Indicator '" \o idef.name \o "' already registered")]
  ELSE [ok |-> TRUE,
        defs |-> (idef.name :> idef) @@ defs,
        syn |-> [k \in all_aliases(idef) |-> idef.name] @@ syn,
        err |-> NoneV]

\* register(idef) on the registry (defs, syn): the registry after the call,
\* or the ValueError of a duplicate name with the registry as it was.
register(defs, syn, idef) ==
  IF idef.name \in DOMAIN defs
  THEN [ok |-> FALSE, defs |-> defs, syn |-> syn,
        err |-> Raise("ValueError", "register",
                      "Indicator '" \o idef.name \o "' already registered")]
  ELSE LET keys == {lower(alias) : alias \in all_aliases(idef)}
       IN [ok |-> TRUE,
           defs |-> (idef.name :> idef) @@ defs,
           syn |-> [k \in keys |-> idef.name] @@ syn,
           err |-> NoneV]

\* resolve without the lower-casing of the key.
resolve_cased(defs, syn, name_or_alias) ==
  LET key == strip(name_or_alias)
  IN IF key \in DOMAIN defs THEN Ok(defs[key])
     ELSE IF key \in DOMAIN syn THEN Ok(defs[syn[key]])
     ELSE IF name_or_alias \in DOMAIN defs THEN Ok(defs[name_or_alias])
     ELSE Raise("KeyError", "resolve", "Unknown indicator: '" \o name_or_alias \o "'")

\* resolve(name_or_alias) on the registry (defs, syn)
resolve(defs, syn, name_or_alias) ==
  LET key == lower(strip(name_or_alias))
  IN IF key \in DOMAIN defs THEN Ok(defs[key])
     ELSE IF key \in DOMAIN syn THEN Ok(defs[syn[key]])
     ELSE IF name_or_alias \in DOMAIN defs THEN Ok(defs[name_or_alias])
     ELSE Raise("KeyError", "resolve", "Unknown indicator: '" \o name_or_alias \o "'")

RECURSIVE load(_, _, _)
\* The registry after the _def(...) calls of args, each a register call; a
\* raising one ends construction with its exception.
load(defs, syn, args) ==
  IF args = <<>> THEN [ok |-> TRUE, defs |-> defs, syn |-> syn, err |-> NoneV]
  ELSE LET r == register(defs, syn, _def(Head(args)))
       IN IF ~r.ok THEN r ELSE load(r.defs, r.syn, Tail(args))

\* __init__: empty catalog and index, then the built-ins.
_load_builtin_definitions == load(<<>>, <<>>, BuiltinArgs)

-----------------------------------------------------------------------------
(* The conversions int(), float(), str(), repr() and the operators ==, in  *)
(* on the values validate_params handles.                                  *)

DigitChars == "0123456789"

IsDigit(c) == \E i \in 1..Len(DigitChars) : CharAt(DigitChars, i) = c
DigitVal(c) == (CHOOSE i \in 1..Len(DigitChars) : CharAt(DigitChars, i) = c) - 1
AllDigits(s) == \A i \in 1..Len(s) : IsDigit(CharAt(s, i))

RECURSIVE DigitsValue(_)
\* The number a string of decimal digits denotes ("" denotes 0).
DigitsValue(s) ==
  IF Len(s) = 0 THEN 0
  ELSE 10 * DigitsValue(SubSeq(s, 1, Len(s) - 1)) + DigitVal(CharAt(s, Len(s)))

RECURSIVE NatToString(_)
NatToString(n) ==
  IF n < 10 THEN CharAt(DigitChars, n + 1)
  ELSE NatToString(n \div 10) \o CharAt(DigitChars, (n % 10) + 1)

IntToString(n) == IF n < 0 THEN "-" \o NatToString(-n) ELSE NatToString(n)

\* The fixed-point float m written as Python writes a float: at least one
\* decimal, no trailing zeros ("2.0", "0.015").
FloatToString(m) ==
  LET a == IF m < 0 THEN -m ELSE m
      frac == a % FloatScale
      d3 == NatToString(frac \div 100) \o NatToString((frac \div 10) % 10) \o NatToString(frac % 10)
      cut == IF frac % 10 # 0 THEN 3 ELSE IF frac % 100 # 0 THEN 2 ELSE 1
  IN (IF m < 0 THEN "-" ELSE "") \o NatToString(a \div FloatScale) \o "." \o SubSeq(d3, 1, cut)

\* A sign and the rest of a stripped numeric literal.
SignOf(s) == IF Len(s) > 0 /\ CharAt(s, 1) = "-" THEN -1 ELSE 1
Unsigned(s) == IF Len(s) > 0 /\ CharAt(s, 1) \in {"+", "-"} THEN SubSeq(s, 2, Len(s)) ELSE s

\* repr(v) of a string, a number, a bool, None
RECURSIVE py_repr(_)
RECURSIVE ReprItems(_)
ReprItems(l) ==
  IF l = <<>> THEN ""
  ELSE py_repr(Head(l)) \o (IF Len(l) > 1 THEN ", " ELSE "") \o ReprItems(Tail(l))
py_repr(v) ==
  CASE v.t = "none" -> "None"
    [] v.t = "bool" -> IF v.b THEN "True" ELSE "False"
    [] v.t = "int" -> IntToString(v.i)
    [] v.t = "float" -> FloatToString(v.f)
    [] v.t = "str" -> "'" \o v.s \o "'"
    [] v.t = "list" -> "[" \o ReprItems(v.l) \o "]"

\* str(v), also what an f-string writes for {v}
py_str(v) == IF v.t = "str" THEN v.s ELSE py_repr(v)

\* type(v).__name__
TypeName(v) == IF v.t = "none" THEN "NoneType" ELSE v.t

\* int(v): digit strings (stripped, signed) parse, floats truncate toward
\* zero, anything else raises.
py_int(v) ==
  CASE v.t = "int" -> Ok(v)
    [] v.t = "bool" -> Ok(IntV(IF v.b THEN 1 ELSE 0))
    [] v.t = "float" -> Ok(IntV(IF v.f < 0 THEN -((-v.f) \div FloatScale) ELSE v.f \div FloatScale))
    [] v.t = "str" ->
         LET s == strip(v.s)
             u == Unsigned(s)
         IN IF Len(u) > 0 /\ AllDigits(u)
            THEN Ok(IntV(SignOf(s) * DigitsValue(u)))
            ELSE Raise("ValueError", "int",
                       "invalid literal for int() with base 10: " \o py_repr(v))
    [] OTHER -> Raise("TypeError", "int",
                      "int() argument must be a string, a bytes-like object or a real number, not '"
                        \o TypeName(v) \o "'")

\* The position of the first "." of s, or 0.
DotAt(s) ==
  IF \E i \in 1..Len(s) : CharAt(s, i) = "."
  THEN CHOOSE i \in 1..Len(s) : CharAt(s, i) = "." /\ \A j \in 1..(i - 1) : CharAt(s, j) # "."
  ELSE 0

\* float(v): decimal literals (stripped, signed, at most three decimals are
\* kept by the fixed point) parse, anything else raises.
py_float(v) ==
  CASE v.t = "float" -> Ok(v)
    [] v.t = "int" -> Ok(FloatV(v.i * FloatScale))
    [] v.t = "bool" -> Ok(FloatV(IF v.b THEN FloatScale ELSE 0))
    [] v.t = "str" ->
         LET s == strip(v.s)
             u == Unsigned(s)
             dot == DotAt(u)
             whole == IF dot = 0 THEN u ELSE SubSeq(u, 1, dot - 1)
             frac == IF dot = 0 THEN "" ELSE SubSeq(u, dot + 1, Len(u))
             frac3 == SubSeq(frac \o "000", 1, 3)
         IN IF Len(whole) + Len(frac) > 0 /\ AllDigits(whole) /\ AllDigits(frac)
            THEN Ok(FloatV(SignOf(s) * (DigitsValue(whole) * FloatScale + DigitsValue(frac3))))
            ELSE Raise("ValueError", "float",
                       "could not convert string to float: " \o py_repr(v))
    [] OTHER -> Raise("TypeError", "float",
                      "float() argument must be a string or a real number, not '"
                        \o TypeName(v) \o "'")

IsNumber(v) == v.t \in {"int", "float", "bool"}
\* The fixed-point magnitude of a number.
Num(v) == py_float(v).val.f

\* a == b
PyEq(a, b) == IF IsNumber(a) /\ IsNumber(b) THEN Num(a) = Num(b) ELSE a = b

\* `val in container` for a list or a string container; any other
\* container, and a non-string in a string, is a TypeError.
py_in(val, container) ==
  CASE container.t = "list" -> Ok(\E i \in DOMAIN container.l : PyEq(val, container.l[i]))
    [] container.t = "str" ->
         IF val.t = "str" THEN Ok(Contains(container.s, val.s))
         ELSE Raise("TypeError", "choices",
                    "'in <string>' requires string as left operand, not " \o TypeName(val))
    [] OTHER -> Raise("TypeError", "choices",
                      "argument of type '" \o TypeName(container) \o "' is not iterable")

-----------------------------------------------------------------------------
(* validate_params.                                                        *)

\* coerce with repr() in place of str() for a string parameter.
coerce_repr(spec, k, v) ==
  CASE spec.type = "int" -> py_int(v)
    [] spec.type = "float" -> py_float(v)
    [] spec.type = "bool" ->
         IF v.t = "bool" THEN Ok(v)
         ELSE LET sv == lower(py_str(v))
              IN IF sv \in {"1", "true", "yes", "y"} THEN Ok(BoolV(TRUE))
                 ELSE IF sv \in {"0", "false", "no", "n"} THEN Ok(BoolV(FALSE))
                 ELSE Raise("ValueError", "bool",
                            "Param '" \o k \o "' expects bool, got " \o py_repr(v))
    [] spec.type = "str" -> Ok(StrV(py_repr(v)))
    [] OTHER -> Ok(v)

\* Lines 176-192: the value coerced by the declared type.
coerce(spec, k, v) ==
  CASE spec.type = "int" -> py_int(v)
    [] spec.type = "float" -> py_float(v)
    [] spec.type = "bool" ->
         IF v.t = "bool" THEN Ok(v)
         ELSE LET sv == lower(py_str(v))
              IN IF sv \in {"1", "true", "yes", "y"} THEN Ok(BoolV(TRUE))
                 ELSE IF sv \in {"0", "false", "no", "n"} THEN Ok(BoolV(FALSE))
                 ELSE Raise("ValueError", "bool",
                            "Param '" \o k \o "' expects bool, got " \o py_repr(v))
    [] spec.type = "str" -> Ok(StrV(py_str(v)))
    [] OTHER -> Ok(v)

\* Lines 194-195: the min check; float(val) itself may raise.
check_min(spec, k, val) ==
  IF spec.min = NoneV THEN Ok(val)
  ELSE LET fv == py_float(val)
       IN IF ~fv.ok THEN [fv EXCEPT !.at = "min"]
          ELSE IF fv.val.f < Num(spec.min)
          THEN Raise("ValueError", "min",
                     "Param '" \o k \o "'=" \o py_str(val) \o " < min " \o py_str(spec.min))
          ELSE Ok(val)

\* Lines 196-197: the max check.
check_max(spec, k, val) ==
  IF spec.max = NoneV THEN Ok(val)
  ELSE LET fv == py_float(val)
       IN IF ~fv.ok THEN [fv EXCEPT !.at = "max"]
          ELSE IF fv.val.f > Num(spec.max)
          THEN Raise("ValueError", "max",
                     "Param '" \o k \o "'=" \o py_str(val) \o " > max " \o py_str(spec.max))
          ELSE Ok(val)

\* Lines 198-199: the choices check; `in` itself may raise.
check_choices(spec, k, val) ==
  IF spec.choices = NoneV THEN Ok(val)
  ELSE LET m == py_in(val, spec.choices)
       IN IF ~m.ok THEN m
          ELSE IF ~m.val
          THEN Raise("ValueError", "choices",
                     "Param '" \o k \o "'=" \o py_str(val) \o " not in " \o py_str(spec.choices))
          ELSE Ok(val)

\* One iteration of the loop for the entry (k, v) of out: the value to
\* store, or what the iteration raises.
validate_one(idef, pmap, k, v) ==
  IF k \notin Keys(pmap)
  THEN Raise("ValueError", "unknown_param", "Unknown param '" \o k \o "' for " \o idef.name)
  ELSE LET spec == Get(pmap, k)
           c == coerce(spec, k, v)
       IN IF ~c.ok THEN c
          ELSE LET lo == check_min(spec, k, c.val)
               IN IF ~lo.ok THEN lo
                  ELSE LET hi == check_max(spec, k, c.val)
                       IN IF ~hi.ok THEN hi ELSE check_choices(spec, k, c.val)

RECURSIVE validate_loop(_, _, _, _)
\* `for k, v in out.items()` from the i-th entry on.
validate_loop(idef, pmap, out, i) ==
  IF i > Len(out) THEN Ok(out)
  ELSE LET r == validate_one(idef, pmap, out[i].k, out[i].v)
       IN IF ~r.ok THEN r
          ELSE validate_loop(idef, pmap, Put(out, out[i].k, r.val), i + 1)

\* validate_params(name_or_alias, params) on the registry (defs, syn);
\* params is a dict (None counts as the empty dict).
validate_params(defs, syn, name_or_alias, params) ==
  LET res == resolve(defs, syn, name_or_alias)
  IN IF ~res.ok THEN res
     ELSE LET idef == res.val
              out == Update(param_defaults(idef), params)
              pmap == Update(<<>>, [i \in DOMAIN idef.params |->
                                       KV(idef.params[i].name, idef.params[i])])
          IN validate_loop(idef, pmap, out, 1)

-----------------------------------------------------------------------------
(* compute and the pandas-ta adapter.  A table is the sequence of its      *)
(* column names; a Series is named by its column.                          *)

_PRICE_ALIASES ==
  <<KV("open", <<"open", "Open", "OPEN", "o", "O">>),
    KV("high", <<"high", "High", "HIGH", "h", "H">>),
    KV("low", <<"low", "Low", "LOW", "l", "L">>),
    KV("close", <<"close", "Close", "CLOSE", "c", "C", "price", "Price", "adj_close", "Adj Close">>),
    KV("volume", <<"volume", "Volume", "VOLUME", "vol", "Vol", "VOL">>)>>

Min(S) == CHOOSE x \in S : \A y \in S : x <= y

\* df.columns.tolist() as Python prints it
ColumnsRepr(table) == py_repr(ListV([i \in DOMAIN table |-> StrV(table[i])]))

\* _find_series(df, logical_name): the column the input is read from
_find_series(table, logical_name) ==
  LET aliases == GetOr(_PRICE_ALIASES, logical_name, <<>>)
      hits == {i \in DOMAIN aliases : aliases[i] \in Range(table)}
  IN IF hits # {} THEN Ok(aliases[Min(hits)])
     ELSE IF logical_name \in Range(table) THEN Ok(logical_name)
     ELSE Raise("KeyError", "_find_series",
                "Required input '" \o logical_name \o "' not found in DataFrame columns: "
                  \o ColumnsRepr(table))

RECURSIVE attach(_, _)
\* `for col in out_df.columns: df[col] = out_df[col]`: a column already in
\* the table keeps its place, a new one goes last.
attach(table, cols) ==
  IF cols = <<>> THEN table
  ELSE attach(IF Head(cols) \in Range(table) THEN table ELSE Append(table, Head(cols)),
              Tail(cols))

\* call keeping the frame the backend returned in place of the caller's table.
call_result_table(table, func_name, kwargs, bk) ==
  CASE bk.kind = "raise" -> [res |-> Raise("BackendError", "call", func_name), df |-> table]
    [] bk.kind = "none" -> [res |-> Ok(NoneV), df |-> table]
    [] bk.kind = "frame" -> [res |-> Ok(NoneV), df |-> bk.columns]

\* pandas_ta_backend.call(df, func_name, **kwargs).  What pandas_ta does is
\* the outcome bk: "raise" (import failure, no such function, or the
\* function raising), "none" (it returned None), or "frame" with the
\* columns of the Series/DataFrame it returned.
call(table, func_name, kwargs, bk) ==
  CASE bk.kind = "raise" -> [res |-> Raise("BackendError", "call", func_name), df |-> table]
    [] bk.kind = "none" -> [res |-> Ok(NoneV), df |-> table]
    [] bk.kind = "frame" -> [res |-> Ok(NoneV), df |-> attach(table, bk.columns)]

\* new_cols with `before` taken after the adapter call.
new_cols_late(table, before) == SelectSeq(table, LAMBDA c : c \notin Range(table))

\* `[c for c in df.columns if c not in before]`
new_cols(table, before) == SelectSeq(table, LAMBDA c : c \notin before)

\* `next((b for b in idef.bindings if b.backend == backend), None)`
find_binding(idef, backend) ==
  LET hits == {i \in DOMAIN idef.bindings : idef.bindings[i].backend = backend}
  IN IF hits = {} THEN NoneV ELSE idef.bindings[Min(hits)]

RECURSIVE translate(_, _)
\* `{binding.param_map.get(k, k): v for k, v in pvals.items()}`
translate(param_map, pvals) ==
  IF pvals = <<>> THEN <<>>
  ELSE LET e == pvals[Len(pvals)]
       IN Put(translate(param_map, SubSeq(pvals, 1, Len(pvals) - 1)),
              GetOr(param_map, e.k, e.k), e.v)

RECURSIVE find_inputs(_, _)
\* `{argname: _find_series(df, logical) for logical, argname in input_map.items()}`:
\* the dict, or the KeyError of the first input without a column.
find_inputs(table, input_map) ==
  IF input_map = <<>> THEN Ok(<<>>)
  ELSE LET front == find_inputs(table, SubSeq(input_map, 1, Len(input_map) - 1))
           e == input_map[Len(input_map)]
           s == _find_series(table, e.k)
       IN IF ~front.ok THEN front
          ELSE IF ~s.ok THEN s
          ELSE Ok(Put(front.val, e.v, s.val))

\* A compute call that raised before the adapter was reached.
NotInvoked(err, table) == [res |-> err, df |-> table, invoked |-> FALSE, kwargs |-> <<>>]

\* The end of compute: `new_cols = [...]` and the returned dict, or the
\* adapter's exception; c is what adapter.call did.
compute_return(before, idef, binding, pvals, backend, kwargs, c) ==
  IF ~c.res.ok
  THEN [res |-> c.res, df |-> c.df, invoked |-> TRUE, kwargs |-> kwargs]
  ELSE [res |-> Ok([columns |-> new_cols(c.df, before),
                    spec |-> [name |-> idef.name, params |-> pvals,
                              backend |-> backend, func |-> binding.func,
                              inputs |-> idef.inputs]]),
        df |-> c.df, invoked |-> TRUE, kwargs |-> kwargs]

\* `adapter.call(df, binding.func, **kwargs)` with kwargs built
compute_call(table, idef, binding, pvals, backend, kwargs, bk) ==
  compute_return(Range(table), idef, binding, pvals, backend, kwargs,
                 call(table, binding.func, kwargs, bk))

\* The adapter called with the translated parameters alone, the inputs
\* looked up in the table it leaves.
compute_adapter_unchecked(table, idef, binding, pvals, backend, backend_args, input_kwargs, bk) ==
  IF backend # "pandas_ta"
  THEN NotInvoked(Raise("NotImplementedError", "adapter",
                        "Backend '" \o backend \o "' not implemented"), table)
  ELSE IF call(table, binding.func, backend_args, bk).res.ok /\ ~input_kwargs.ok
  THEN [res |-> input_kwargs, df |-> call(table, binding.func, backend_args, bk).df,
        invoked |-> TRUE, kwargs |-> backend_args]
  ELSE compute_call(table, idef, binding, pvals, backend, backend_args, bk)

\* compute from the adapter selection on: input_kwargs is the result of the
\* input lookup, backend_args the translated parameters.
compute_adapter(table, idef, binding, pvals, backend, backend_args, input_kwargs, bk) ==
  IF ~input_kwargs.ok THEN NotInvoked(input_kwargs, table)
  ELSE IF backend # "pandas_ta"
  THEN NotInvoked(Raise("NotImplementedError", "adapter",
                        "Backend '" \o backend \o "' not implemented"), table)
  ELSE compute_call(table, idef, binding, pvals, backend,
                    Update(input_kwargs.val, backend_args), bk)

\* compute once the parameters are validated: pvals is what validate_params
\* returned or raised.
compute_validated(table, idef, binding, pvals, backend, bk) ==
  IF ~pvals.ok THEN NotInvoked(pvals, table)
  ELSE compute_adapter(table, idef, binding, pvals.val, backend,
                       translate(binding.param_map, pvals.val),
                       find_inputs(table, binding.input_map), bk)

\* compute with the parameters validated before the binding is looked at.
compute_bound_validate_first(defs, syn, table, idef, binding, params, backend, bk) ==
  IF ~validate_params(defs, syn, idef.name, params).ok
  THEN NotInvoked(validate_params(defs, syn, idef.name, params), table)
  ELSE IF binding = NoneV
  THEN NotInvoked(Raise("NotImplementedError", "binding",
                        idef.name \o " has no binding for backend '" \o backend \o "'."),
                  table)
  ELSE compute_validated(table, idef, binding,
                         validate_params(defs, syn, idef.name, params), backend, bk)

\* compute once the binding is looked up
compute_bound(defs, syn, table, idef, binding, params, backend, bk) ==
  IF binding = NoneV
  THEN NotInvoked(Raise("NotImplementedError", "binding",
                        idef.name \o " has no binding for backend '" \o backend \o "'."),
                  table)
  ELSE compute_validated(table, idef, binding,
                         validate_params(defs, syn, idef.name, params), backend, bk)

\* compute once the name is resolved: res is what resolve returned or raised.
compute_resolved(defs, syn, table, res, params, backend, bk) ==
  IF ~res.ok THEN NotInvoked(res, table)
  ELSE compute_bound(defs, syn, table, res.val, find_binding(res.val, backend),
                     params, backend, bk)

\* compute(df, name_or_alias, params, backend) on the registry (defs, syn),
\* with bk what the backend does if it is reached: what the call returns or
\* raises, the table after it, whether adapter.call ran and with which
\* keyword arguments.  resolve is evaluated once, as `idef = self.resolve(...)`.
compute(defs, syn, table, name_or_alias, params, backend, bk) ==
  CHOOSE out \in {compute_resolved(defs, syn, table, res, params, backend, bk) :
                    res \in {resolve(defs, syn, name_or_alias)}} : TRUE
-----------------------------------------------------------------------------
(* The calls the environment makes: their arguments.                       *)

MaxRegistered == 2    \* registrations accepted after construction
MaxOverrides == 2     \* entries of an overrides dict
MaxBackendCols == 2   \* columns of the frame a backend function returns

\* A definition with well-formed parameter specs, an alias that RSI also
\* carries, a label of a source system of its own and a blank label.
Def_Foo ==
  IndicatorDef("Foo", <<"close">>,
    <<P("window", "int", IntV(14), IntV(1), IntV(50), NoneV),
      P("mult", "float", FloatV(2000), FloatV(500), NoneV, NoneV),
      P("mode", "str", StrV("fast"), NoneV, NoneV, ListV(<<StrV("fast"), StrV("slow")>>)),
      P("flag", "bool", BoolV(TRUE), NoneV, NoneV, NoneV)>>,
    <<"rsi", "Foo Index">>,
    <<KV("custom", "FooLabel"), KV("talib", "")>>,
    <<KV("threshold", FloatV(1500))>>,
    <<B("pandas_ta", "foo", <<KV("window", "length")>>, <<KV("close", "close")>>)>>,
    NL(<<KV("en", <<"Foo Oscillator">>)>>, <<"\\bFOO\\s*\\(\\s*{WINDOW}\\s*\\)">>))

\* A definition whose canonical name is the lower-cased name of a built-in.
Def_rsi ==
  IndicatorDef("rsi", <<"close", "volume">>,
    <<P("tag", "str", StrV("x"), NoneV, NoneV, NoneV)>>,
    <<"foo index">>, <<>>, <<>>,
    <<B("pandas_ta", "rsi2", <<>>, <<KV("close", "close"), KV("volume", "volume")>>)>>,
    NL(<<>>, <<>>))

\* A second definition under the canonical name of a built-in.
Def_RSI_again ==
  IndicatorDef("RSI", <<"close">>, <<>>, <<"second rsi">>, <<KV("custom", "RSI2")>>, <<>>,
    <<B("pandas_ta", "rsi", <<>>, <<KV("close", "close")>>)>>,
    NL(<<>>, <<>>))

RegisterArgs == {Def_Foo, Def_rsi, Def_RSI_again}

ResolveArgs ==
  {"RSI", "rsi", "relative strength index", "  Relative Strength INDEX ", "Relative-Stärke-Index",
   "Foo", "foolabel", "second rsi", "nope", ""}

ValidateNames == {"RSI", "OBV", "Foo", "nope"}

\* The entries overrides are made of; "bogus" is declared by no indicator.
OverrideKeys == <<"bogus", "window", "mult", "mode", "flag">>
OverrideEntries ==
  {KV("bogus", IntV(1)),
   KV("window", IntV(0)), KV("window", IntV(1)), KV("window", StrV("20")),
   KV("window", StrV("abc")),
   KV("mult", StrV("0.5")),
   KV("mode", StrV("slow")),
   KV("flag", StrV("YES")), KV("flag", StrV("maybe"))}

KeyRank(k) == CHOOSE i \in DOMAIN OverrideKeys : OverrideKeys[i] = k

RECURSIVE AsDict(_)
\* The entries of S as a dict, in the order of OverrideKeys.
AsDict(S) ==
  IF S = {} THEN <<>>
  ELSE LET e == CHOOSE x \in S : \A y \in S : KeyRank(x.k) <= KeyRank(y.k)
       IN <<e>> \o AsDict(S \ {e})

\* The overrides dicts: at most MaxOverrides entries, one per key.
Overrides ==
  {AsDict(S) : S \in {T \in SUBSET OverrideEntries :
                        /\ Cardinality(T) <= MaxOverrides
                        /\ \A a, b \in T : a.k = b.k => a = b}}

\* The tables a caller loads: full OHLCV, and aliased columns without volume.
Tables ==
  {<<"open", "high", "low", "close", "volume">>, <<"Open", "High", "Low", "price">>}

ComputeNames == {"OBV", "RSI", "Foo", "nope"}
ComputeParams == {<<>>, <<KV("bogus", IntV(1)), KV("window", IntV(0))>>}
Backends == {"pandas_ta", "talib"}

\* The column names a backend function may return.
BackendColumns == {"close", "OBV", "RSI_14"}

RECURSIVE Arrangements(_, _)
\* The sequences of n distinct elements of S.
Arrangements(S, n) ==
  IF n = 0 THEN {<<>>}
  ELSE {<<x>> \o a : x \in S, a \in Arrangements(S, n - 1)} \ 
       {s \in {<<x>> \o a : x \in S, a \in Arrangements(S, n - 1)} :
          \E i, j \in DOMAIN s : i # j /\ s[i] = s[j]}

BackendOutcomes ==
  {[kind |-> "raise"], [kind |-> "none"]}
    \cup {[kind |-> "frame", columns |-> c] :
            c \in UNION {Arrangements(BackendColumns, n) : n \in 1..MaxBackendCols}}

-----------------------------------------------------------------------------
(* The state machine.                                                      *)

\* IndicatorRegistry(): the built-in catalog; the caller holds an OHLCV table.
Init ==
  /\ _defs = _load_builtin_definitions.defs
  /\ _syn_index = _load_builtin_definitions.syn
  /\ df = <<"open", "high", "low", "close", "volume">>
  /\ ret = [op |-> "init"]

NumBuiltins == Len(BuiltinArgs)

\* register(idef)
Register(idef) ==
  /\ idef.name \in DOMAIN _defs \/ Cardinality(DOMAIN _defs) < NumBuiltins + MaxRegistered
  /\ LET r == register(_defs, _syn_index, idef)
     IN /\ _defs' = r.defs
        /\ _syn_index' = r.syn
        /\ ret' = [op |-> "register", idef |-> idef,
                   res |-> IF r.ok THEN Ok(NoneV) ELSE r.err]
  /\ UNCHANGED df

\* resolve(name_or_alias)
Resolve(name_or_alias) ==
  /\ ret' = [op |-> "resolve", name |-> name_or_alias,
             res |-> resolve(_defs, _syn_index, name_or_alias)]
  /\ UNCHANGED <<_defs, _syn_index, df>>

\* validate_params(name_or_alias, params)
ValidateParams(name_or_alias, params) ==
  /\ ret' = [op |-> "validate_params", name |-> name_or_alias, params |-> params,
             res |-> validate_params(_defs, _syn_index, name_or_alias, params)]
  /\ UNCHANGED <<_defs, _syn_index, df>>

\* compute(df, name_or_alias, params, backend), the backend doing bk; bk is
\* recorded when the adapter was reached.
Compute(name_or_alias, params, backend, bk) ==
  /\ \E c \in {compute(_defs, _syn_index, df, name_or_alias, params, backend, bk)} :
        /\ df' = c.df
        /\ ret' = [op |-> "compute", name |-> name_or_alias, params |-> params,
                   backend |-> backend, before |-> df, res |-> c.res,
                   invoked |-> c.invoked, kwargs |-> c.kwargs,
                   bk |-> IF c.invoked THEN bk ELSE NoneV]
  /\ UNCHANGED <<_defs, _syn_index>>

\* load_csv_dataset of the server: the caller's table is replaced by a
\* freshly read one.
load_csv_dataset(table) ==
  /\ df' = table
  /\ ret' = [op |-> "load_csv_dataset", res |-> Ok(table)]
  /\ UNCHANGED <<_defs, _syn_index>>

DoRegister == \E idef \in RegisterArgs : Register(idef)
DoResolve == \E q \in ResolveArgs : Resolve(q)
DoValidateParams == \E n \in ValidateNames, p \in Overrides : ValidateParams(n, p)
DoCompute ==
  \E n \in ComputeNames, p \in ComputeParams, b \in Backends, bk \in BackendOutcomes :
    Compute(n, p, b, bk)

\* Registration, resolution and validation.
Next == DoRegister \/ DoResolve \/ DoValidateParams

Spec == Init /\ [][Next]_vars

DoRegisterFoo == Register(Def_Foo)
DoLoad == \E t \in Tables : load_csv_dataset(t)

\* Registration of one definition, and computation on the caller's table.
NextCompute == DoRegisterFoo \/ DoLoad \/ DoCompute

SpecCompute == Init /\ [][NextCompute]_vars

-----------------------------------------------------------------------------
(* Properties.                                                             *)

\* The registry is as construction left it.
Fresh ==
  /\ _defs = _load_builtin_definitions.defs
  /\ _syn_index = _load_builtin_definitions.syn

BuiltinNames == {BuiltinArgs[i].name : i \in DOMAIN BuiltinArgs}

\* The aliases of a definition: synonyms, per-language synonyms of every
\* language, non-empty source labels.
Aliases(I) ==
  Range(I.synonyms)
    \cup UNION {Range(I.nlp.synonyms_by_lang[i].v) : i \in DOMAIN I.nlp.synonyms_by_lang}
    \cup ({I.source_labels[i].v : i \in DOMAIN I.source_labels} \ {""})

RECURSIVE AltCase(_, _)
\* s with its letters alternately in upper and lower case.
AltCase(s, up) ==
  IF Len(s) = 0 THEN ""
  ELSE (IF up THEN upper(CharAt(s, 1)) ELSE lower(CharAt(s, 1)))
         \o AltCase(SubSeq(s, 2, Len(s)), ~up)

\* An alias as written, in lower case, in upper case and in mixed case.
CaseVariants(a) == {a, lower(a), upper(a), AltCase(a, TRUE), AltCase(a, FALSE)}

\* The failures the error taxonomy calls InvalidParameterValue and
\* UnknownParameter: both are ValueErrors of validate_params.
IsUnknownParameter(res) == ~res.ok /\ res.exc = "ValueError" /\ res.at = "unknown_param"
IsInvalidParameterValue(res) ==
  ~res.ok /\ res.exc = "ValueError" /\ res.at \in {"int", "float", "bool", "min", "max", "choices"}

\* The definition the last call's name resolves to.
RetDef == resolve(_defs, _syn_index, ret.name)

DeclaredParams(idef) == {idef.params[i].name : i \in DOMAIN idef.params}
SpecOf(idef, k) == idef.params[CHOOSE i \in DOMAIN idef.params : idef.params[i].name = k]

\* C1: after any successful register calls, resolve(I.name) returns I
\* itself for every registered indicator I, whatever the other indicators'
\* names and aliases.
C1_ResolveOwnName ==
  \A n \in DOMAIN _defs : resolve(_defs, _syn_index, n) = Ok(_defs[n])

\* C2: in a freshly constructed registry every alias of every built-in
\* indicator, written in any letter case, resolves to that indicator.
C2_BuiltinAliasesResolve ==
  Fresh =>
    \A i \in DOMAIN BuiltinArgs :
      LET I == _def(BuiltinArgs[i])
      IN \A a \in Aliases(I) : \A q \in CaseVariants(a) :
           resolve(_defs, _syn_index, q) = Ok(I)

C2_Witness ==
  /\ Fresh
  /\ ret.op = "resolve"
  /\ ret.name \in {"relative strength index", "rsi"}
  /\ ret.res = Ok(_def(Def_RSI))

\* C3: register of a definition whose name is already in the catalog fails
\* with the duplicate error, leaves catalog and alias index as they were,
\* and the first registration resolves as before by its name and aliases.
C3_DuplicateRejected ==
  [][(ret'.op = "register" /\ ret'.idef.name \in DOMAIN _defs)
       => /\ ~ret'.res.ok
          /\ ret'.res.exc = "ValueError"
          /\ ret'.res.at = "register"
          /\ _defs' = _defs
          /\ _syn_index' = _syn_index
          /\ \A q \in {ret'.idef.name} \cup Aliases(_defs[ret'.idef.name]) :
               resolve(_defs', _syn_index', q) = resolve(_defs, _syn_index, q)]_vars

C3_Witness ==
  /\ ret.op = "register"
  /\ ret.idef = Def_RSI_again
  /\ ~ret.res.ok
  /\ _defs["RSI"] = _def(Def_RSI)
  /\ "second rsi" \notin DOMAIN _syn_index

\* A value of the declared parameter type.
HasType(v, type) == v.t = type

\* C4: for every built-in indicator validate_params(name, {}) succeeds and
\* returns exactly the declared defaults, each of its declared type.
C4_EmptyOverridesGiveDefaults ==
  (Fresh /\ ret.op = "validate_params" /\ ret.name \in BuiltinNames /\ ret.params = <<>>)
    => /\ ret.res.ok
       /\ ret.res.val = param_defaults(_defs[ret.name])
       /\ \A i \in DOMAIN ret.res.val :
            HasType(ret.res.val[i].v, SpecOf(_defs[ret.name], ret.res.val[i].k).type)

\* C5: validate_params coerces by declared type: RSI's window "20" comes
\* back as the integer 20; a bool parameter keeps a native boolean, maps
\* 1/true/yes/y and 0/false/no/n (any case) to true and false, and fails
\* with InvalidParameterValue on anything else.
C5_CoercionByType ==
  /\ (Fresh /\ ret.op = "validate_params" /\ ret.name = "RSI"
        /\ ret.params = <<KV("window", StrV("20"))>>)
       => ret.res = Ok(<<KV("window", IntV(20))>>)
  /\ (ret.op = "validate_params" /\ RetDef.ok)
       => \A i \in DOMAIN ret.params :
            LET e == ret.params[i]
                sv == lower(py_str(e.v))
            IN (e.k \in DeclaredParams(RetDef.val) /\ SpecOf(RetDef.val, e.k).type = "bool")
                 => IF e.v.t = "bool" THEN ret.res.ok => Get(ret.res.val, e.k) = e.v
                    ELSE IF sv \in {"1", "true", "yes", "y"}
                    THEN ret.res.ok => Get(ret.res.val, e.k) = BoolV(TRUE)
                    ELSE IF sv \in {"0", "false", "no", "n"}
                    THEN ret.res.ok => Get(ret.res.val, e.k) = BoolV(FALSE)
                    ELSE ~ret.res.ok

\* C6: for a parameter that declares a min, a value below min fails with
\* InvalidParameterValue and a value equal to min succeeds and is returned.
C6_MinBoundary ==
  (ret.op = "validate_params" /\ RetDef.ok /\ Len(ret.params) = 1)
    => LET e == ret.params[1]
       IN (/\ e.k \in DeclaredParams(RetDef.val)
           /\ SpecOf(RetDef.val, e.k).min # NoneV
           /\ IsNumber(e.v))
            => /\ Num(e.v) < Num(SpecOf(RetDef.val, e.k).min) => IsInvalidParameterValue(ret.res)
               /\ Num(e.v) = Num(SpecOf(RetDef.val, e.k).min)
                    => ret.res.ok /\ Get(ret.res.val, e.k) = e.v

\* C7: validate_params is idempotent: validating the mapping a successful
\* validate_params returned succeeds and returns the same mapping.
C7_Idempotent ==
  (ret.op = "validate_params" /\ ret.res.ok)
    => validate_params(_defs, _syn_index, ret.name, ret.res.val) = ret.res

C7_Witness ==
  /\ ret.op = "validate_params"
  /\ ret.res.ok
  /\ KV("window", StrV("20")) \in Range(ret.params)
  /\ Get(ret.res.val, "window") = IntV(20)

\* C8: overrides with a key the resolved indicator does not declare fail
\* with UnknownParameter, also when a declared parameter's value is
\* un-coercible or out of bounds.
C8_UnknownKeyRejectedFirst ==
  (ret.op = "validate_params" /\ RetDef.ok
     /\ \E i \in DOMAIN ret.params : ret.params[i].k \notin DeclaredParams(RetDef.val))
    => IsUnknownParameter(ret.res)

\* The position of column c in a table.
ColumnIndex(table, c) == CHOOSE i \in DOMAIN table : table[i] = c

\* C9: when compute returns, its new columns are exactly the columns of
\* the table after the call that were not there before it, in the table's
\* column order; no column present before the call is reported.
C9_NewColumnsAreTheDifference ==
  (ret.op = "compute" /\ ret.res.ok)
    => LET cols == ret.res.val.columns
       IN /\ Range(cols) = Range(df) \ Range(ret.before)
          /\ \A i, j \in DOMAIN cols :
               i < j => ColumnIndex(df, cols[i]) < ColumnIndex(df, cols[j])

C9_Witness ==
  /\ ret.op = "compute"
  /\ ret.res.ok
  /\ ret.bk.kind = "frame"
  /\ \E c \in Range(ret.bk.columns) : c \in Range(ret.before)
  /\ ret.res.val.columns # <<>>

\* The raise sites of resolution, binding lookup, parameter validation and
\* input-column resolution.
BeforeBackend ==
  {"resolve", "binding", "unknown_param", "int", "float", "bool", "min", "max", "choices",
   "_find_series"}

\* C10: a compute failure of resolution, binding lookup, parameter
\* validation or input-column resolution is raised before the adapter is
\* invoked, and the table has the columns it had before the call.
C10_FailureBeforeBackend ==
  (ret.op = "compute" /\ ~ret.res.ok /\ ret.res.at \in BeforeBackend)
    => ~ret.invoked /\ df = ret.before

C10_Witness ==
  /\ ret.op = "compute"
  /\ ~ret.res.ok
  /\ ret.res.at = "_find_series"
  /\ ~ret.invoked
  /\ df = ret.before

-----------------------------------------------------------------------------
(* list(): the canonical names in the order of Python's string comparison, *)
(* which compares code points.                                             *)

\* The characters of the model's strings in ascending code point order.
CodeOrder ==
  "\t\n\f\r !\"#$%&'()*+,-./0123456789:;<=>?@ABCDEFGHIJKLMNOPQRSTUVWXYZ[\\]^_abcdefghijklmnopqrstuvwxyz{|}~Ää"

\* ord(c), up to an order-preserving renumbering
ord == [c \in {CharAt(CodeOrder, i) : i \in 1..Len(CodeOrder)} |->
          CHOOSE i \in 1..Len(CodeOrder) : CharAt(CodeOrder, i) = c]

RECURSIVE str_lt(_, _)
\* a < b for two strings
str_lt(a, b) ==
  IF Len(b) = 0 THEN FALSE
  ELSE IF Len(a) = 0 THEN TRUE
  ELSE IF CharAt(a, 1) # CharAt(b, 1) THEN ord[CharAt(a, 1)] < ord[CharAt(b, 1)]
  ELSE str_lt(SubSeq(a, 2, Len(a)), SubSeq(b, 2, Len(b)))

RECURSIVE sorted(_)
\* sorted(S) for a collection S of distinct strings
sorted(S) ==
  IF S = {} THEN <<>>
  ELSE LET m == CHOOSE x \in S : \A y \in S : x = y \/ str_lt(x, y)
       IN <<m>> \o sorted(S \ {m})

\* list() with the names compared without regard to case.
list_caseless(defs) ==
  LET byLower == sorted({lower(n) : n \in DOMAIN defs})
  IN [i \in DOMAIN byLower |-> CHOOSE n \in DOMAIN defs : lower(n) = byLower[i]]

\* list()
list(defs) == sorted(DOMAIN defs)

-----------------------------------------------------------------------------
(* Python's re, for the patterns get_regex_package builds: literals,       *)
(* escapes, \d \s \w \b, ".", groups (capturing, (?:...), (?P<name>...),   *)
(* (?!...), a leading (?i)), alternation and the repeats * + ? {m} {m,n},  *)
(* greedy or lazy.  Every pattern of the package ignores case.  A parsed   *)
(* pattern is a sequence of alternatives, each a sequence of nodes.        *)

\* s[a:b] for a string s, as Python slices: negative offsets count from the
\* end, offsets beyond the string are clipped.
PySlice(s, a, b) ==
  LET clip(x) == IF x < 0 THEN (IF x + Len(s) < 0 THEN 0 ELSE x + Len(s))
                 ELSE IF x > Len(s) THEN Len(s) ELSE x
  IN IF clip(a) >= clip(b) THEN "" ELSE SubSeq(s, clip(a) + 1, clip(b))

\* The i-th character of s, or "" beyond its end.
Ch(s, i) == IF i \in 1..Len(s) THEN SubSeq(s, i, i) ELSE ""

RegexError(msg) == Raise("re.error", "compile", msg)

\* The position after the digits of p that start at position i.
RECURSIVE SkipDigits(_, _)
SkipDigits(p, i) == IF i <= Len(p) /\ IsDigit(Ch(p, i)) THEN SkipDigits(p, i + 1) ELSE i

\* The repeat p holds at position i: whether there is one, its bounds (hi
\* is -1 for no upper bound) and the position after it.  A "{" that opens
\* no well-formed repeat is a literal.
RepeatAt(p, i) ==
  LET c == Ch(p, i)
      a == SkipDigits(p, i + 1)
      b == IF Ch(p, a) = "," THEN SkipDigits(p, a + 1) ELSE a
      lo == PySlice(p, i, a - 1)
      hi == IF Ch(p, a) = "," THEN PySlice(p, a, b - 1) ELSE lo
  IN CASE c = "*" -> [is |-> TRUE, lo |-> 0, hi |-> -1, pos |-> i + 1]
       [] c = "+" -> [is |-> TRUE, lo |-> 1, hi |-> -1, pos |-> i + 1]
       [] c = "?" -> [is |-> TRUE, lo |-> 0, hi |-> 1, pos |-> i + 1]
       [] c = "{" /\ Ch(p, i + 1) # "}" /\ Ch(p, b) = "}" ->
            [is |-> TRUE, lo |-> IF lo = "" THEN 0 ELSE DigitsValue(lo),
             hi |-> IF hi = "" THEN -1 ELSE DigitsValue(hi), pos |-> b + 1]
       [] OTHER -> [is |-> FALSE]

\* The parser reads p from left to right and keeps the groups that are
\* open as a stack of frames: the kind and name of the group, its finished
\* alternatives and the items of the alternative being read.
Frame(kind, name) == [kind |-> kind, name |-> name, alts |-> <<>>, items |-> <<>>]

\* One step of the parser in state st: pos is the position to read, names
\* the group names met, err the error found, done whether the end of p was
\* reached.
parse_step(p, st) ==
  LET i == st.pos
      d == Len(st.stack)
      f == st.stack[d]
      c == Ch(p, i)
      e == Ch(p, i + 1)
      r == RepeatAt(p, i)
      lazy == Ch(p, r.pos) = "?"
      fail(msg) == [st EXCEPT !.err = msg]
      add(node, to) == [st EXCEPT !.pos = to, !.stack[d].items = Append(@, node)]
      open(kind, name, to) ==
        IF name # "" /\ name \in Range(st.names) THEN fail("redefinition of group name")
        ELSE [st EXCEPT !.pos = to, !.stack = Append(@, Frame(kind, name)),
                        !.names = IF name = "" THEN @ ELSE Append(@, name)]
      close == CHOOSE j \in (i + 4)..(Len(p) + 1) :
                 /\ j = Len(p) + 1 \/ Ch(p, j) = ">"
                 /\ \A k \in (i + 4)..(j - 1) : Ch(p, k) # ">"
  IN CASE c = "" ->
            IF d > 1 THEN fail("missing ), unterminated subpattern")
            ELSE [st EXCEPT !.done = TRUE, !.stack[d].alts = Append(@, f.items)]
       [] c = "|" ->
            [st EXCEPT !.pos = i + 1, !.stack[d].alts = Append(@, f.items),
                       !.stack[d].items = <<>>]
       [] c = ")" ->
            IF d = 1 THEN fail("unbalanced parenthesis")
            ELSE [st EXCEPT !.pos = i + 1,
                            !.stack = [SubSeq(@, 1, d - 1) EXCEPT ![d - 1].items =
                                         Append(@, [n |-> f.kind, name |-> f.name,
                                                    alts |-> Append(f.alts, f.items)])]]
       [] c = "(" ->
            IF PySlice(p, i - 1, i + 3) = "(?i)" /\ i = 1
            THEN add([n |-> "group", alts |-> << <<>> >>, name |-> ""], i + 4)
            ELSE IF PySlice(p, i - 1, i + 2) = "(?:" THEN open("group", "", i + 3)
            ELSE IF PySlice(p, i - 1, i + 2) = "(?!" THEN open("not", "", i + 3)
            ELSE IF PySlice(p, i - 1, i + 3) = "(?P<"
            THEN IF close > Len(p) THEN fail("missing >, unterminated name")
                 ELSE open("group", PySlice(p, i + 3, close - 1), close + 1)
            ELSE IF e = "?" THEN fail("unknown extension")
            ELSE open("group", "", i + 1)
       [] c \in {"*", "+", "?", "{"} /\ r.is ->
            IF f.items = <<>> \/ f.items[Len(f.items)].n = "wordb"
            THEN fail("nothing to repeat")
            ELSE IF f.items[Len(f.items)].n = "rep" THEN fail("multiple repeat")
            ELSE IF r.hi # -1 /\ r.hi < r.lo THEN fail("min repeat greater than max repeat")
            ELSE [st EXCEPT !.pos = IF lazy THEN r.pos + 1 ELSE r.pos,
                            !.stack[d].items[Len(f.items)] =
                               [n |-> "rep", of |-> @, lo |-> r.lo, hi |-> r.hi,
                                lazy |-> lazy, from |-> -1]]
       [] c = "\\" ->
            IF e = "" THEN fail("bad escape (end of pattern)")
            ELSE IF e \in {"d", "s", "w"} THEN add([n |-> "class", k |-> e], i + 2)
            ELSE IF e = "b" THEN add([n |-> "wordb"], i + 2)
            ELSE IF lower(e) \in {CharAt(LowerChars, j) : j \in 1..26} \/ IsDigit(e)
            THEN fail("bad escape \\" \o e)
            ELSE add([n |-> "lit", c |-> e], i + 2)
       [] c = "." -> add([n |-> "any"], i + 1)
       [] OTHER -> add([n |-> "lit", c |-> c], i + 1)

\* One, two, four ... steps of the parser from state st, fewer when it ends.
parse_1(p, st) == IF st.err # "" \/ st.done THEN st ELSE parse_step(p, st)
parse_2(p, st) == parse_1(p, parse_1(p, st))
parse_4(p, st) == parse_2(p, parse_2(p, st))
parse_8(p, st) == parse_4(p, parse_4(p, st))
parse_16(p, st) == parse_8(p, parse_8(p, st))

RECURSIVE parse_run(_, _)
\* The parser run from state st to the end of p or to the first error.
parse_run(p, st) == IF st.err # "" \/ st.done THEN st ELSE parse_run(p, parse_16(p, st))

\* What the parser's final state st makes of the pattern: its
\* alternatives, or re.error.
parse_result(st) == IF st.err # "" THEN RegexError(st.err) ELSE Ok(st.stack[1].alts)

\* The parse of a whole pattern.
parse(pattern) ==
  parse_result(parse_run(pattern, [pos |-> 1, stack |-> <<Frame("group", "")>>,
                                   names |-> <<>>, err |-> "", done |-> FALSE]))

\* re.compile(pattern, flags=re.IGNORECASE), and re.compile("(?i)..."): the
\* pattern object, which holds its pattern, or re.error.
compile(pattern) ==
  IF ~parse(pattern).ok THEN parse(pattern) ELSE Ok([t |-> "Pattern", pattern |-> pattern])

\* \w, \d and \s as sets of characters
CharClass(k) ==
  CASE k = "d" -> {CharAt(DigitChars, j) : j \in 1..Len(DigitChars)}
    [] k = "s" -> Whitespace \cup {"\f"}
    [] k = "w" -> {CharAt(DigitChars, j) : j \in 1..Len(DigitChars)} \cup {"_"}
                    \cup {CharAt(LowerChars, j) : j \in 1..Len(LowerChars)}
                    \cup {CharAt(UpperChars, j) : j \in 1..Len(UpperChars)}

\* The matcher tries the ways to match in the order re tries them.  Its
\* state: the nodes still to match, the offset i in text (i characters are
\* consumed), the named groups closed so far, the state st ("run", "match"
\* or "fail") and, as a stack, the ways still untried.
Way(nodes, i, groups) == [nodes |-> nodes, i |-> i, groups |-> groups]

RECURSIVE match_run(_, _)

\* One step of the matcher in state m.
match_step(text, m) ==
  LET node == Head(m.nodes)
      rest == Tail(m.nodes)
      i == m.i
      c == Ch(text, i + 1)
      isWord(j) == Ch(text, j) # "" /\ Ch(text, j) \in CharClass("w")
      \* go on with these nodes; the ways in `later` are tried after this one
      go(nodes, to, later) == [m EXCEPT !.nodes = nodes, !.i = to, !.untried = later \o @]
      \* give this way up and take the first untried one
      back == IF m.untried = <<>> THEN [m EXCEPT !.st = "fail"]
              ELSE [m EXCEPT !.nodes = Head(m.untried).nodes, !.i = Head(m.untried).i,
                             !.groups = Head(m.untried).groups, !.untried = Tail(@)]
      closing == IF node.name = "" THEN rest
                 ELSE <<[n |-> "end", name |-> node.name, from |-> i]>> \o rest
      again == <<node.of,
                 [node EXCEPT !.lo = IF node.lo > 0 THEN node.lo - 1 ELSE 0,
                              !.hi = IF node.hi = -1 THEN -1 ELSE node.hi - 1,
                              !.from = i]>> \o rest
  IN IF m.nodes = <<>> THEN [m EXCEPT !.st = "match"]
     ELSE
     CASE node.n = "lit" -> IF c # "" /\ lower(c) = lower(node.c) THEN go(rest, i + 1, <<>>) ELSE back
       [] node.n = "class" -> IF c # "" /\ c \in CharClass(node.k) THEN go(rest, i + 1, <<>>) ELSE back
       [] node.n = "any" -> IF c # "" /\ c # "\n" THEN go(rest, i + 1, <<>>) ELSE back
       [] node.n = "wordb" -> IF isWord(i) # isWord(i + 1) THEN go(rest, i, <<>>) ELSE back
       [] node.n = "group" ->
            go(node.alts[1] \o closing, i,
               [k \in 1..(Len(node.alts) - 1) |-> Way(node.alts[k + 1] \o closing, i, m.groups)])
       [] node.n = "end" ->
            [m EXCEPT !.nodes = rest,
                      !.groups = Put(@, node.name, PySlice(text, node.from, i))]
       [] node.n = "not" ->
            IF match_run(text, [nodes |-> <<[node EXCEPT !.n = "group"]>>, i |-> i,
                                groups |-> m.groups, st |-> "run", untried |-> <<>>]).st = "match"
            THEN back ELSE go(rest, i, <<>>)
       [] node.n = "rep" ->
            IF node.hi = 0 \/ node.from = i
            THEN (IF node.lo = 0 \/ node.from = i THEN go(rest, i, <<>>) ELSE back)
            ELSE IF node.lo > 0 THEN go(again, i, <<>>)
            ELSE IF node.lazy THEN go(rest, i, <<Way(again, i, m.groups)>>)
            ELSE go(again, i, <<Way(rest, i, m.groups)>>)

\* One, two, four ... steps of the matcher from state m, fewer when it ends.
match_1(text, m) == IF m.st # "run" THEN m ELSE match_step(text, m)
match_2(text, m) == match_1(text, match_1(text, m))
match_4(text, m) == match_2(text, match_2(text, m))
match_8(text, m) == match_4(text, match_4(text, m))
match_16(text, m) == match_8(text, match_8(text, m))

\* The matcher run from state m until it matches or no way is left.
match_run(text, m) == IF m.st # "run" THEN m ELSE match_run(text, match_16(text, m))

\* Pattern.match(text, pos): the first way to match the alternatives at
\* offset pos.
match_at(alts, text, pos) ==
  match_run(text, [nodes |-> <<[n |-> "group", name |-> "", alts |-> alts]>>, i |-> pos,
                   groups |-> <<>>, st |-> "run", untried |-> <<>>])

\* The least offset from pos on at which alts match, or -1.
RECURSIVE first_match(_, _, _)
first_match(alts, text, pos) ==
  IF pos > Len(text) THEN -1
  ELSE IF match_at(alts, text, pos).st = "match" THEN pos
  ELSE first_match(alts, text, pos + 1)

\* The match object for the match of alts at offset pos, None for pos = -1.
match_object(alts, text, pos) ==
  IF pos = -1 THEN NoneV
  ELSE [t |-> "match", start |-> pos, end |-> match_at(alts, text, pos).i,
        groups |-> match_at(alts, text, pos).groups]

\* Pattern.search(text): the leftmost match as its span and named groups,
\* or None.
search(pat, text) ==
  match_object(parse(pat.pattern).val, text, first_match(parse(pat.pattern).val, text, 0))

\* The characters re.escape puts a backslash before.
SpecialChars ==
  {"(", ")", "[", "]", "{", "}", "?", "*", "+", "-", "|", "^", "$", "\\", ".", "&", "~", "#",
   " ", "\t", "\n", "\r", "\f"}

RECURSIVE escape(_)
\* re.escape(s): each character on its own, a backslash before the special
\* ones; s is split in halves to keep the recursion shallow.
escape(s) ==
  IF Len(s) = 0 THEN ""
  ELSE IF Len(s) = 1 THEN (IF s \in SpecialChars THEN "\\" ELSE "") \o s
  ELSE escape(SubSeq(s, 1, Len(s) \div 2)) \o escape(SubSeq(s, Len(s) \div 2 + 1, Len(s)))

\* The offsets from i on at which `old` occurs in s.
Occurrences(s, old, i) == {j \in i..(Len(s) - Len(old)) : PySlice(s, j, j + Len(old)) = old}

RECURSIVE replace_from(_, _, _, _)
\* s[i:].replace(old, new): the occurrences are taken from the left and do
\* not overlap.
replace_from(s, old, new, i) ==
  IF Occurrences(s, old, i) = {} THEN PySlice(s, i, Len(s))
  ELSE PySlice(s, i, Min(Occurrences(s, old, i))) \o new
         \o replace_from(s, old, new, Min(Occurrences(s, old, i)) + Len(old))

\* s.replace(old, new), old not empty
replace(s, old, new) == replace_from(s, old, new, 0)

-----------------------------------------------------------------------------
(* get_regex_package.                                                      *)

\* The maximal-length members of a set of strings.
Longest(S) == {x \in S : \A y \in S : Len(x) >= Len(y)}

RECURSIVE shortest_first(_)
\* The synonyms sorted by length without `reverse=True`.
shortest_first(S) ==
  IF S = {} THEN {<<>>}
  ELSE UNION {{r \o <<x>> : r \in shortest_first(S \ {x})} : x \in Longest(S)}

RECURSIVE sorted_by_len(_)
\* `sorted(syns, key=len, reverse=True)`: the sort is stable and a set is
\* iterated in an order that varies from run to run, so strings of equal
\* length may come in any order.  The set of the possible results.
sorted_by_len(S) ==
  IF S = {} THEN {<<>>}
  ELSE UNION {{<<x>> \o r : r \in sorted_by_len(S \ {x})} : x \in Longest(S)}

RECURSIVE join(_, _)
\* sep.join(strs)
join(sep, strs) ==
  IF strs = <<>> THEN ""
  ELSE IF Len(strs) = 1 THEN strs[1]
  ELSE strs[1] \o sep \o join(sep, Tail(strs))

\* The placeholders and what replaces them, in the order of the dict repl.
repl ==
  <<KV("{WINDOW}", "(?P<window>\\d{1,3})"),
    KV("{FAST}", "(?P<fast>\\d{1,3})"),
    KV("{SLOW}", "(?P<slow>\\d{1,3})"),
    KV("{SIGNAL}", "(?P<signal>\\d{1,3})"),
    KV("{STDEV}", "(?P<stdev>\\d{1,2}(?:\\.\\d+)?)"),
    KV("{THRESHOLD}", "(?P<thresh>-?\\d{1,3}(?:\\.\\d+)?)")>>

RECURSIVE substitute_unnamed(_, _)
\* The substitution with the window group left without its name.
substitute_unnamed(pat, i) ==
  IF i > Len(repl) THEN pat
  ELSE substitute_unnamed(replace(pat, repl[i].k, replace(repl[i].v, "?P<window>", "")), i + 1)

RECURSIVE substitute(_, _)
\* `for k, v in repl.items(): pat = pat.replace(k, v)` from the i-th item on
substitute(pat, i) ==
  IF i > Len(repl) THEN pat ELSE substitute(replace(pat, repl[i].k, repl[i].v), i + 1)


\* The synonyms get_regex_package collects for idef and lang.
syns(idef, lang) ==
  ({idef.name} \cup Range(idef.synonyms)
     \cup Range(GetOr(idef.nlp.synonyms_by_lang, lang, <<>>))
     \cup {GetOr(idef.source_labels, "tradingview", ""),
           GetOr(idef.source_labels, "talib", ""),
           GetOr(idef.source_labels, "pandas_ta", "")}) \ {""}

\* The synonym detector for the escaped synonyms in the order given.
synonyms_pat(escaped) ==
  IF escaped # <<>> THEN compile("(?i)\\b(" \o join("|", escaped) \o ")\\b")
  ELSE compile("(?!x)x")

\* get_regex_package from the compiled templates on: the first error of
\* re.compile, or one package for each order the synonyms may be sorted in.
package_compiled(idef, lang, compiled) ==
  IF \E i \in DOMAIN compiled : ~compiled[i].ok
  THEN {compiled[Min({i \in DOMAIN compiled : ~compiled[i].ok})]}
  ELSE {Ok([synonyms |-> synonyms_pat([i \in DOMAIN order |-> escape(order[i])]).val,
            templates |-> [i \in DOMAIN compiled |-> compiled[i].val],
            default_thresholds |-> idef.default_thresholds]) :
          order \in sorted_by_len(syns(idef, lang))}

\* get_regex_package from the result of `d = self.resolve(name_or_alias)` on.
package_resolved(res, lang) ==
  IF ~res.ok THEN {res}
  ELSE UNION {package_compiled(res.val, lang, compiled) :
                compiled \in {[i \in DOMAIN res.val.nlp.regex_templates |->
                                 compile(substitute(res.val.nlp.regex_templates[i], 1))]}}

\* get_regex_package(name_or_alias, lang) on the registry (defs, syn): the
\* results the call may have, one per order in which the synonyms of equal
\* length are listed, or what it raises.  keywords and negative_keywords
\* are copied from the definition and are left out.
get_regex_package(defs, syn, name_or_alias, lang) ==
  UNION {package_resolved(res, lang) : res \in {resolve(defs, syn, name_or_alias)}}

-----------------------------------------------------------------------------
(* The catalog operations as a state machine of their own.                 *)

\* A definition whose template writes the parentheses of "RSI(14)" plainly.
Def_Paren ==
  IndicatorDef("Paren", <<"close">>, <<>>, <<"RSI reading">>, <<KV("talib", "PAREN")>>, <<>>,
    <<B("pandas_ta", "paren", <<>>, <<KV("close", "close")>>)>>,
    NL(<<KV("en", <<"Paren">>)>>, <<"RSI({WINDOW})">>))

CatalogArgs == {Def_Foo, Def_Paren, Def_RSI_again}
PackageNames == {"RSI", "Foo", "Paren", "MACD", "OBV", "second rsi", "nope"}
Languages == {"en", "de", "zz"}

\* list()
List ==
  /\ ret' = [op |-> "list", res |-> Ok(list(_defs))]
  /\ UNCHANGED <<_defs, _syn_index, df>>

\* get_regex_package(name_or_alias, lang)
GetRegexPackage(name_or_alias, lang) ==
  /\ \E out \in get_regex_package(_defs, _syn_index, name_or_alias, lang) :
       ret' = [op |-> "get_regex_package", name |-> name_or_alias, lang |-> lang, res |-> out]
  /\ UNCHANGED <<_defs, _syn_index, df>>

DoRegisterCatalog == \E idef \in CatalogArgs : Register(idef)
DoGetRegexPackage == \E n \in PackageNames, l \in Languages : GetRegexPackage(n, l)

\* Registration, listing and the regex package.
NextCatalog == DoRegisterCatalog \/ List \/ DoGetRegexPackage

SpecCatalog == Init /\ [][NextCatalog]_vars

-----------------------------------------------------------------------------
(* mcp_strategy_research/extractor.py: chunking, deduplication and the     *)
(* extraction with its fallback.  A call in progress, and the result of    *)
(* the last call, are held in ret.                                         *)

Max(S) == CHOOSE x \in S : \A y \in S : x >= y

\* `step = max(1, chunk_size - max(0, overlap))` with the offsets advanced
\* by chunk_size alone.
chunk_step_no_overlap(chunk_size, overlap) == Max({1, chunk_size})

\* step = max(1, chunk_size - max(0, overlap))
chunk_step(chunk_size, overlap) == Max({1, chunk_size - Max({0, overlap})})

\* _chunk_text up to the loop: the frame of the call, returned at once for
\* a text that is empty or no longer than chunk_size.
chunk_enter(text, chunk_size, overlap, max_chunks) ==
  [op |-> "_chunk_text", text |-> text, chunk_size |-> chunk_size, overlap |-> overlap,
   max_chunks |-> max_chunks, step |-> chunk_step(chunk_size, overlap), i |-> 0,
   chunks |-> IF text = "" \/ Len(text) <= chunk_size THEN <<text>> ELSE <<>>,
   pc |-> IF text = "" \/ Len(text) <= chunk_size THEN "return" ELSE "while"]

\* One test of the loop condition in frame f, with the body if it holds and
\* the return if it does not.
chunk_while(f) ==
  IF f.i < Len(f.text) /\ Len(f.chunks) < f.max_chunks
  THEN [f EXCEPT !.chunks = Append(@, PySlice(f.text, f.i, f.i + f.chunk_size)),
                 !.i = @ + f.step]
  ELSE [f EXCEPT !.pc = "return"]

RECURSIVE chunk_run(_)
\* The loop run from frame f to its return.
chunk_run(f) == IF f.pc = "return" THEN f ELSE chunk_run(chunk_while(f))

\* _chunk_text(text, chunk_size, overlap, max_chunks)
_chunk_text(text, chunk_size, overlap, max_chunks) ==
  chunk_run(chunk_enter(text, chunk_size, overlap, max_chunks)).chunks

\* A dict as a value: its entries in insertion order.
DictV(d) == [t |-> "dict", d |-> d]

\* bool(v) is False
Falsy(v) ==
  v \in {NoneV, StrV(""), IntV(0), FloatV(0), BoolV(FALSE), ListV(<<>>), DictV(<<>>)}

\* The characters [a-z0-9\s] keeps.
KeptChars ==
  {CharAt(LowerChars, j) : j \in 1..26} \cup {CharAt(DigitChars, j) : j \in 1..Len(DigitChars)}
    \cup Whitespace \cup {"\f"}

RECURSIVE sub_other(_)
\* re.sub(r"[^a-z0-9\s]", " ", s)
sub_other(s) ==
  IF s = "" THEN ""
  ELSE (IF CharAt(s, 1) \in KeptChars THEN CharAt(s, 1) ELSE " ") \o sub_other(PySlice(s, 1, Len(s)))

\* _norm_str(s) for a value s: the normalized string, or the AttributeError
\* of `.lower()` on a value that is neither a string nor false.
_norm_str(s) ==
  IF Falsy(s) THEN Ok("")
  ELSE IF s.t = "str" THEN Ok(strip(sub_other(lower(s.s))))
  ELSE Raise("AttributeError", "_norm_str", "object has no attribute 'lower'")

RECURSIVE sorted_list(_)
\* sorted(l) for a sequence l of strings, which may repeat
sorted_list(l) ==
  IF l = <<>> THEN <<>>
  ELSE LET k == CHOOSE j \in DOMAIN l : \A h \in DOMAIN l : l[h] = l[j] \/ str_lt(l[j], l[h])
       IN <<l[k]>> \o sorted_list([h \in 1..(Len(l) - 1) |-> IF h < k THEN l[h] ELSE l[h + 1]])

\* " ".join(s) for a string s: its characters with a space between them
spaced(s) == join(" ", [j \in 1..Len(s) |-> CharAt(s, j)])

\* dict.get(k, default) on a dict value
dict_get(c, k, default) == GetOr(c.d, k, default)

\* hashlib.sha1(blob).hexdigest(): digests are only compared, and two blobs
\* are taken to have one digest only if they are equal.
sha1(blob) == <<"sha1", blob>>

\* The normalized indicator names of candidate c, in the order given, or
\* what the generator expression raises.
ind_names(c) ==
  LET inds == IF Falsy(dict_get(c, "indicators", NoneV)) THEN ListV(<<>>)
              ELSE dict_get(c, "indicators", NoneV)
      names == [j \in DOMAIN inds.l |-> _norm_str(dict_get(inds.l[j], "name", StrV("")))]
  IN IF inds.t # "list" THEN Raise("TypeError", "_sig_for_candidate", "indicators is no list of dicts")
     ELSE IF \E j \in DOMAIN inds.l : inds.l[j].t # "dict"
     THEN Raise("AttributeError", "_sig_for_candidate", "object has no attribute 'get'")
     ELSE IF \E j \in DOMAIN names : ~names[j].ok
     THEN names[CHOOSE j \in DOMAIN names : ~names[j].ok /\ \A h \in 1..(j - 1) : names[h].ok]
     ELSE Ok([j \in DOMAIN names |-> names[j].val])

\* " ".join(c.get("entry_rules", []) + c.get("exit_rules", [])), or the
\* TypeError of the concatenation or of the join.
rules_text(c) ==
  LET entry == dict_get(c, "entry_rules", ListV(<<>>))
      exit == dict_get(c, "exit_rules", ListV(<<>>))
  IN IF entry.t # "list" \/ exit.t # "list"
     THEN Raise("TypeError", "_sig_for_candidate", "can only concatenate list to list")
     ELSE IF \E j \in DOMAIN (entry.l \o exit.l) : (entry.l \o exit.l)[j].t # "str"
     THEN Raise("TypeError", "_sig_for_candidate", "sequence item: expected str instance")
     ELSE Ok(join(" ", [j \in DOMAIN (entry.l \o exit.l) |-> (entry.l \o exit.l)[j].s]))

\* _sig_for_candidate(c): the signature, or what the first failing
\* expression raises.
_sig_for_candidate(c) ==
  LET name == _norm_str(dict_get(c, "name", StrV("")))
      timeframe == _norm_str(dict_get(c, "timeframe", StrV("")))
      inds == ind_names(c)
      rules == rules_text(c)
  IN IF c.t # "dict" THEN Raise("AttributeError", "_sig_for_candidate", "object has no attribute 'get'")
     ELSE IF ~name.ok THEN name
     ELSE IF ~timeframe.ok THEN timeframe
     ELSE IF ~inds.ok THEN inds
     ELSE IF ~rules.ok THEN rules
     ELSE Ok(sha1(name.val \o "|" \o timeframe.val \o "|" \o join(",", sorted_list(inds.val))
                    \o "|" \o spaced(strip(sub_other(lower(rules.val))))))

RECURSIVE dedup_loop(_, _, _, _, _)
\* The loop of _dedup_candidates from the j-th candidate on.
dedup_loop(cands, limit, j, seen, out) ==
  IF j > Len(cands) THEN Ok(out)
  ELSE IF ~_sig_for_candidate(cands[j]).ok THEN _sig_for_candidate(cands[j])
  ELSE IF _sig_for_candidate(cands[j]).val \in seen THEN dedup_loop(cands, limit, j + 1, seen, out)
  ELSE IF Len(out) + 1 >= limit THEN Ok(Append(out, cands[j]))
  ELSE dedup_loop(cands, limit, j + 1, seen \cup {_sig_for_candidate(cands[j]).val},
                  Append(out, cands[j]))

\* _dedup_candidates with every candidate kept.
dedup_keep_all(cands, limit) ==
  IF \E j \in DOMAIN cands : ~_sig_for_candidate(cands[j]).ok
  THEN dedup_loop(cands, limit, 1, {}, <<>>)
  ELSE Ok(SubSeq(cands, 1, Min({Len(cands), Max({limit, 1})})))

\* _dedup_candidates(cands, limit)
_dedup_candidates(cands, limit) == dedup_loop(cands, limit, 1, {}, <<>>)

\* The candidates the responses of this model carry.
Cand(name, timeframe, inds, entry, exit) ==
  DictV(<<KV("name", StrV(name)), KV("timeframe", StrV(timeframe)),
          KV("indicators", ListV([j \in DOMAIN inds |-> DictV(<<KV("name", StrV(inds[j]))>>)])),
          KV("entry_rules", ListV([j \in DOMAIN entry |-> StrV(entry[j])])),
          KV("exit_rules", ListV([j \in DOMAIN exit |-> StrV(exit[j])]))>>)

\* json.loads(js) for the texts of this model; any other text is not JSON.
json_loads(js) ==
  CASE js = "[]" -> Ok(ListV(<<>>))
    [] js = "{}" -> Ok(DictV(<<>>))
    [] js = "[1, 2]" -> Ok(ListV(<<IntV(1), IntV(2)>>))
    [] js = "{\"synonyms\": {\"RSI\": [\"Relative Strength Index\"]}}" ->
         Ok(DictV(<<KV("synonyms", DictV(<<KV("RSI", ListV(<<StrV("Relative Strength Index")>>))>>))>>))
    [] js = "[{\"name\": \"Alpha\", \"timeframe\": \"1h\", \"indicators\": [{\"name\": \"RSI\"}], \"entry_rules\": [\"x\"], \"exit_rules\": [\"y\"]}]" ->
         Ok(ListV(<<Cand("Alpha", "1h", <<"RSI">>, <<"x">>, <<"y">>)>>))
    [] js = "[{\"name\": \"ALPHA!\", \"timeframe\": \"1h\", \"indicators\": [{\"name\": \"RSI\"}], \"entry_rules\": [\"x\"], \"exit_rules\": [\"y\"]}, {\"name\": \"Beta\", \"timeframe\": \"4h\"}]" ->
         Ok(ListV(<<Cand("ALPHA!", "1h", <<"RSI">>, <<"x">>, <<"y">>),
                    DictV(<<KV("name", StrV("Beta")), KV("timeframe", StrV("4h"))>>)>>))
    [] OTHER -> Raise("JSONDecodeError", "json.loads", "Expecting value")

\* The span re.search(r"\[[\s\S]*\]", s) matches: from the first "[" that a
\* "]" follows to the last "]"; the whole of s if there is none.
array_span(s) ==
  IF \E a \in 1..Len(s) : Ch(s, a) = "[" /\ \E b \in (a + 1)..Len(s) : Ch(s, b) = "]"
  THEN PySlice(s, Min({a \in 1..Len(s) : Ch(s, a) = "["}) - 1,
               Max({b \in 1..Len(s) : Ch(s, b) = "]"}))
  ELSE s

\* _json_from_text(s): the items of the array, [] if there is none.
_json_from_text(s) ==
  IF json_loads(array_span(s)).ok /\ json_loads(array_span(s)).val.t = "list"
  THEN json_loads(array_span(s)).val.l
  ELSE <<>>

\* _parse_hint(llm_hint)
_parse_hint(llm_hint) ==
  IF Falsy(llm_hint) THEN DictV(<<>>)
  ELSE IF json_loads(llm_hint.s).ok THEN json_loads(llm_hint.s).val
  ELSE DictV(<<>>)

\* _compose_prompt(text, indicators, llm_hint): the prompt, of which the
\* text and the synonyms are kept, or the AttributeError of `hint.get`.
_compose_prompt(text, llm_hint) ==
  IF _parse_hint(llm_hint).t # "dict"
  THEN Raise("AttributeError", "_compose_prompt", "object has no attribute 'get'")
  ELSE Ok([text |-> text,
           synonyms |-> IF dict_get(_parse_hint(llm_hint), "synonyms", NoneV).t = "dict"
                        THEN dict_get(_parse_hint(llm_hint), "synonyms", NoneV) ELSE NoneV])

\* What llm.invoke does in one attempt: it raises, or answers with a text.
LLMRaises == Raise("ConnectionError", "llm.invoke", "connection refused")

\* One attempt of _run_llm_once with outcome o of the model: the items
\* parsed; a failure is passed over and leaves none.
attempt(o) == IF o.ok THEN _json_from_text(o.val) ELSE <<>>

\* _run_llm_once(chunk_text), the primary model answering with `first` and
\* the fallback model with `second`.
_run_llm_once(chunk_text, llm_hint, first, second) ==
  IF ~_compose_prompt(chunk_text, llm_hint).ok THEN _compose_prompt(chunk_text, llm_hint)
  ELSE IF attempt(first) # <<>> THEN Ok(attempt(first))
  ELSE IF attempt(second) # <<>> THEN Ok(attempt(second))
  ELSE Ok(<<>>)

RECURSIVE extract_chunks(_, _, _, _, _)
\* `for ck in chunks` from the k-th chunk on: all_candidates, or what a
\* call of _run_llm_once raises.
extract_chunks(chunks, llm_hint, llm, k, all_candidates) ==
  IF k > Len(chunks) THEN Ok(all_candidates)
  ELSE IF ~_run_llm_once(chunks[k], llm_hint, llm[2 * k - 1], llm[2 * k]).ok
  THEN _run_llm_once(chunks[k], llm_hint, llm[2 * k - 1], llm[2 * k])
  ELSE extract_chunks(chunks, llm_hint, llm, k + 1,
                      all_candidates \o _run_llm_once(chunks[k], llm_hint, llm[2 * k - 1], llm[2 * k]).val)

\* The body of the try of extract_strategies: the list it returns, no list
\* when it falls through, or what it raises.
extract_try(candidates, MAX_RETURN) ==
  IF ~candidates.ok THEN candidates
  ELSE IF candidates.val = <<>> THEN Ok(<<>>)
  ELSE _dedup_candidates(candidates.val, MAX_RETURN)

\* The deterministic fallback strategy; its entries position_sizing,
\* defaults and backtest_hints, constants as well, are left out.
Fallback ==
  DictV(<<KV("name", StrV("RSI 14 / MACD Confirmed Pullback (fallback)")),
          KV("description", StrV("Heuristic fallback when LLM is unavailable.")),
          KV("timeframe", StrV("1h")),
          KV("indicators", ListV(<<DictV(<<KV("name", StrV("RSI"))>>),
                                   DictV(<<KV("name", StrV("MACD"))>>)>>)),
          KV("entry_rules",
             ListV(<<StrV("RSI(window=14) crosses below 30 then crosses back above 30"),
                     StrV("MACD line > signal line")>>)),
          KV("exit_rules", ListV(<<StrV("RSI crosses below 70"),
                                   StrV("or trailing_stop(ATR, multiple=2.0)")>>))>>)

\* The classes `except Exception` does not catch.
NotException == {"KeyboardInterrupt", "SystemExit", "GeneratorExit"}

\* extract_strategies with the exceptions of the try let through.
extract_unprotected(tried) == IF tried.ok /\ tried.val = <<>> THEN Ok(<<Fallback>>) ELSE tried

\* extract_strategies from the result of its try on.
extract_return(tried) ==
  IF tried.ok /\ tried.val # <<>> THEN tried
  ELSE IF ~tried.ok /\ tried.exc \in NotException THEN tried
  ELSE Ok(<<Fallback>>)

\* extract_strategies(text, indicators, llm_hint) with the knobs of the
\* module and the outcomes llm of the attempts, two for each chunk.
extract_strategies(text, llm_hint, CHUNK_SIZE, CHUNK_OVERLAP, MAX_CHUNKS, MAX_RETURN, llm) ==
  extract_return(
    extract_try(extract_chunks(_chunk_text(IF Falsy(text) THEN "" ELSE text.s,
                                           CHUNK_SIZE, CHUNK_OVERLAP, MAX_CHUNKS),
                               llm_hint, llm, 1, <<>>),
                MAX_RETURN))

-----------------------------------------------------------------------------
(* The extractor as a state machine.                                       *)

MaxTextLen == 6
MaxCands == 3
MaxChunks == 3

\* The texts that are chunked: the prefixes of a text of distinct characters.
ChunkTexts == {PySlice("abcdefgh", 0, n) : n \in 0..MaxTextLen}
ChunkSizes == -1..4
Overlaps == -1..4

\* The candidates that are deduplicated: two that differ in the case and the
\* punctuation of the name and in the order of the indicators, others that
\* differ in name, timeframe or rules, one without entries and two that are
\* malformed.
CandPool ==
  {Cand("Alpha", "1h", <<"RSI", "MACD">>, <<"x">>, <<"y">>),
   Cand("ALPHA!", "1h", <<"macd", "rsi">>, <<"x">>, <<"y">>),
   Cand("Beta", "1h", <<"RSI", "MACD">>, <<"x">>, <<"y">>),
   Cand("Alpha", "4h", <<"RSI", "MACD">>, <<"x">>, <<"y">>),
   DictV(<<>>),
   IntV(1),
   DictV(<<KV("name", StrV("Alpha")), KV("entry_rules", StrV("x"))>>)}

RECURSIVE SeqsUpTo(_, _)
\* The sequences over S of length at most n.
SeqsUpTo(S, n) ==
  IF n = 0 THEN {<<>>}
  ELSE SeqsUpTo(S, n - 1) \cup {Append(q, x) : q \in SeqsUpTo(S, n - 1), x \in S}

Limits == {-1, 0, 1, 2, 3, 10}

\* What an attempt of the LLM may do: raise, or answer with no JSON, an
\* empty array, an array of malformed candidates or an array of candidates.
LLMOutcomes ==
  {LLMRaises,
   Ok("Sorry, I found [no] strategy."),
   Ok("[]"),
   Ok("Candidates: [1, 2]"),
   Ok("[{\"name\": \"Alpha\", \"timeframe\": \"1h\", \"indicators\": [{\"name\": \"RSI\"}], \"entry_rules\": [\"x\"], \"exit_rules\": [\"y\"]}]"),
   Ok("Here you are:\n[{\"name\": \"ALPHA!\", \"timeframe\": \"1h\", \"indicators\": [{\"name\": \"RSI\"}], \"entry_rules\": [\"x\"], \"exit_rules\": [\"y\"]}, {\"name\": \"Beta\", \"timeframe\": \"4h\"}]")}

\* The texts strategies are extracted from, and the knobs of the module:
\* CHUNK_SIZE, CHUNK_OVERLAP, MAX_CHUNKS.
ExtractTexts == {NoneV, StrV("abcde")}
Knobs == {<<3, 1, 2>>, <<6000, 600, 6>>}
MaxReturns == {1, 8}
Hints == {NoneV, StrV("{\"synonyms\": {\"RSI\": [\"Relative Strength Index\"]}}"), StrV("[1, 2]")}

\* The calls of this model, each with its arguments.
Calls ==
  [op : {"call"}, fn : {"_chunk_text"}, text : ChunkTexts, chunk_size : ChunkSizes,
   overlap : Overlaps, max_chunks : 0..MaxChunks]
  \cup [op : {"call"}, fn : {"_dedup_candidates"}, cands : SeqsUpTo(CandPool, MaxCands),
        limit : Limits]
  \cup [op : {"call"}, fn : {"extract_strategies"}, text : ExtractTexts, llm_hint : Hints,
        knobs : Knobs, MAX_RETURN : MaxReturns, llm : [1..4 -> LLMOutcomes]]

\* One call is made, with any of the arguments.
InitResearch ==
  /\ _defs = <<>>
  /\ _syn_index = <<>>
  /\ df = <<>>
  /\ ret \in Calls

\* _chunk_text(text, chunk_size, overlap, max_chunks) runs to its loop.
ChunkText ==
  /\ ret.op = "call" /\ ret.fn = "_chunk_text"
  /\ ret' = chunk_enter(ret.text, ret.chunk_size, ret.overlap, ret.max_chunks)
  /\ UNCHANGED <<_defs, _syn_index, df>>

\* The loop of _chunk_text tests its condition once.
ChunkWhile ==
  /\ ret.op = "_chunk_text" /\ ret.pc = "while"
  /\ ret' = chunk_while(ret)
  /\ UNCHANGED <<_defs, _syn_index, df>>

\* _dedup_candidates(cands, limit)
DedupCandidates ==
  /\ ret.op = "call" /\ ret.fn = "_dedup_candidates"
  /\ \E res \in {_dedup_candidates(ret.cands, ret.limit)} :
       ret' = [op |-> "_dedup_candidates", cands |-> ret.cands, limit |-> ret.limit, res |-> res]
  /\ UNCHANGED <<_defs, _syn_index, df>>

\* extract_strategies(text, indicators, llm_hint)
ExtractStrategies ==
  /\ ret.op = "call" /\ ret.fn = "extract_strategies"
  /\ \E res \in {extract_strategies(ret.text, ret.llm_hint, ret.knobs[1], ret.knobs[2],
                                      ret.knobs[3], ret.MAX_RETURN, ret.llm)} :
       ret' = [op |-> "extract_strategies", text |-> ret.text, llm_hint |-> ret.llm_hint,
               knobs |-> ret.knobs, MAX_RETURN |-> ret.MAX_RETURN, llm |-> ret.llm, res |-> res]
  /\ UNCHANGED <<_defs, _syn_index, df>>

NextResearch == ChunkText \/ ChunkWhile \/ DedupCandidates \/ ExtractStrategies

\* The extractor; a loop that can go on does go on.
SpecResearch == InitResearch /\ [][NextResearch]_vars /\ WF_vars(ChunkWhile)

-----------------------------------------------------------------------------
(* Properties of compute, of the error messages and of alias collisions.   *)

\* C11: compute of RSI with default parameters on a table with columns
\* open, high, low, close, volume, in a freshly constructed registry,
\* reaches the backend and returns; with a backend that adds the single
\* column RSI_14 it returns the new columns ["RSI_14"] and a spec naming
\* RSI, the resolved parameters, the backend, its function and the inputs.
C11_ComputeRSIDefaults ==
  (/\ Fresh
   /\ ret.op = "compute"
   /\ ret.name = "RSI"
   /\ ret.params = <<>>
   /\ ret.backend = "pandas_ta"
   /\ ret.before = <<"open", "high", "low", "close", "volume">>)
    => /\ ret.invoked
       /\ ret.bk = [kind |-> "frame", columns |-> <<"RSI_14">>]
            => ret.res = Ok([columns |-> <<"RSI_14">>,
                             spec |-> [name |-> "RSI",
                                       params |-> <<KV("window", IntV(14))>>,
                                       backend |-> "pandas_ta",
                                       func |-> "rsi",
                                       inputs |-> <<"close">>]])

\* The entry of key k in the merged mapping validate_params works on.
Merged(idef, params) == Update(param_defaults(idef), params)

\* The text of a value as an error message may show it: as given or coerced.
ValueTexts(spec, v) ==
  {py_str(v), py_repr(v)}
    \cup (IF coerce(spec, spec.name, v).ok
          THEN {py_str(coerce(spec, spec.name, v).val), py_repr(coerce(spec, spec.name, v).val)}
          ELSE {})

\* The text that names the constraint a failure at raise site `at` violated.
ConstraintText(spec, at) ==
  CASE at = "min" -> "min " \o py_str(spec.min)
    [] at = "max" -> "max " \o py_str(spec.max)
    [] at = "choices" -> "not in " \o py_str(spec.choices)
    [] at = "bool" -> "bool"
    [] at = "int" -> "int"
    [] at = "float" -> "float"

\* C15: every InvalidParameterValue failure of validate_params carries a
\* message that names the parameter, the offending value and the violated
\* constraint.
C15_MessageNamesAll ==
  (ret.op = "validate_params" /\ RetDef.ok /\ IsInvalidParameterValue(ret.res))
    => \E p \in DeclaredParams(RetDef.val) :
         /\ Contains(ret.res.msg, "'" \o p \o "'")
         /\ \E t \in ValueTexts(SpecOf(RetDef.val, p), Get(Merged(RetDef.val, ret.params), p)) :
              Contains(ret.res.msg, t)
         /\ Contains(ret.res.msg, ConstraintText(SpecOf(RetDef.val, p), ret.res.at))

\* The lower-cased names under which definition I is indexed by register.
IndexedFor(I) == {lower(x) : x \in {I.name} \cup Aliases(I)}

\* C16: after a successful register of J, every alias J declares that
\* equals, case-insensitively, a name indexed for an indicator registered
\* before it resolves to J.
C16_LastWriteWins ==
  (ret.op = "register" /\ ret.res.ok)
    => \A a \in Aliases(ret.idef) :
         (\E n \in DOMAIN _defs \ {ret.idef.name} : lower(a) \in IndexedFor(_defs[n]))
           => resolve(_defs, _syn_index, a) = Ok(_defs[ret.idef.name])

\* The result of the earliest failing step of the last compute call:
\* resolution, binding lookup, parameter validation, input resolution.
EarliestFailure ==
  LET r == resolve(_defs, _syn_index, ret.name)
  IN IF ~r.ok THEN <<"resolve", r>>
     ELSE IF find_binding(r.val, ret.backend) = NoneV
     THEN <<"binding", NoneV>>
     ELSE IF ~validate_params(_defs, _syn_index, ret.name, ret.params).ok
     THEN <<"validate_params", validate_params(_defs, _syn_index, ret.name, ret.params)>>
     ELSE IF ~find_inputs(ret.before, find_binding(r.val, ret.backend).input_map).ok
     THEN <<"inputs", find_inputs(ret.before, find_binding(r.val, ret.backend).input_map)>>
     ELSE <<"none", NoneV>>

\* C20: when several of indicator resolution, binding lookup, parameter
\* validation and input-column resolution would fail for one compute call,
\* the error raised is that of the earliest of these steps.
C20_EarliestStepFails ==
  (ret.op = "compute" /\ EarliestFailure[1] # "none")
    => /\ ~ret.res.ok
       /\ EarliestFailure[1] = "resolve" => ret.res = EarliestFailure[2]
       /\ EarliestFailure[1] = "binding"
            => ret.res.exc = "NotImplementedError" /\ ret.res.at = "binding"
       /\ EarliestFailure[1] = "validate_params" => ret.res = EarliestFailure[2]
       /\ EarliestFailure[1] = "inputs" => ret.res = EarliestFailure[2]

\* A call for which the binding is missing, the parameters are invalid and
\* an input column is missing, reported as the missing binding.
C20_Witness ==
  /\ ret.op = "compute"
  /\ EarliestFailure[1] = "binding"
  /\ ~validate_params(_defs, _syn_index, ret.name, ret.params).ok
  /\ \E i \in DOMAIN RetDef.val.inputs : ~_find_series(ret.before, RetDef.val.inputs[i]).ok
  /\ ret.res.at = "binding"

\* The names a registry of this model can hold.
KnownNames == {BuiltinArgs[i].name : i \in DOMAIN BuiltinArgs} \cup {idef.name : idef \in CatalogArgs}

\* C14: list() returns every canonical name of the catalog exactly once, in
\* strictly ascending order of code points, and no other name.
C14_ListSortedComplete ==
  ret.op = "list" =>
    /\ Range(ret.res.val) = DOMAIN _defs
    /\ Len(ret.res.val) = Cardinality(DOMAIN _defs)
    /\ Range(ret.res.val) \subseteq KnownNames
    /\ \A i \in 1..(Len(ret.res.val) - 1) : str_lt(ret.res.val[i], ret.res.val[i + 1])

\* list() is called on a catalog that holds a registered name beside the
\* built-in ones, while another was never registered.
C14_Witness ==
  /\ ret.op = "list"
  /\ "Foo" \in Range(ret.res.val)
  /\ "Paren" \notin DOMAIN _defs

RECURSIVE LitText(_)
\* The text a sequence of literal nodes spells.
LitText(nodes) == IF nodes = <<>> THEN "" ELSE Head(nodes).c \o LitText(Tail(nodes))

\* The alternatives of a synonym detector `(?i)\b(a|b|...)\b`, unescaped;
\* none for the detector that matches nothing.
DetectorAlternatives(pat) ==
  IF pat.pattern = "(?!x)x" THEN {}
  ELSE {LitText(a) : a \in Range(parse(pat.pattern).val[1][3].alts)}

\* The synonym set as the description gives it: the canonical name, the
\* synonyms, the synonyms of the language and every non-empty source label.
DescribedSynonyms(idef, lang) ==
  ({idef.name} \cup Range(idef.synonyms)
     \cup Range(GetOr(idef.nlp.synonyms_by_lang, lang, <<>>))
     \cup Values(idef.source_labels)) \ {""}

\* C12: the synonym detector of get_regex_package(name, language) has
\* exactly the alternatives {canonical name} + synonyms +
\* synonyms_by_lang[language] + {every non-empty value of source_labels}.
C12_SynonymSetComplete ==
  (ret.op = "get_regex_package" /\ ret.res.ok) =>
    DetectorAlternatives(ret.res.val.synonyms)
      = DescribedSynonyms(resolve(_defs, _syn_index, ret.name).val, ret.lang)

\* The templates of the definition the last get_regex_package resolved.
TemplatesAsked == resolve(_defs, _syn_index, ret.name).val.nlp.regex_templates

\* pat.search(text) matches and its group `window` is `value`.
MatchesWithWindow(pat, text, value) ==
  /\ search(pat, text) # NoneV
  /\ "window" \in Keys(search(pat, text).groups)
  /\ Get(search(pat, text).groups, "window") = value

\* C13 as stated: the template "RSI({WINDOW})" is compiled into a pattern
\* that matches "RSI(14)" with the group window equal to "14".
C13_PlainTemplateMatches ==
  (ret.op = "get_regex_package" /\ ret.res.ok) =>
    \A i \in DOMAIN TemplatesAsked :
      TemplatesAsked[i] = "RSI({WINDOW})" =>
        MatchesWithWindow(ret.res.val.templates[i], "RSI(14)", "14")

\* C13, amended: the template \bRSI\s*\(\s*{WINDOW}\s*\), which escapes its
\* parentheses, is compiled into a pattern that matches "RSI(14)" with the
\* group window equal to "14"; the template "RSI({WINDOW})" is compiled into
\* a pattern whose parentheses are a group: it matches "RSI14" with window
\* "14" and does not match "RSI(14)".
C13_EscapedTemplateMatches ==
  (ret.op = "get_regex_package" /\ ret.res.ok) =>
    \A i \in DOMAIN TemplatesAsked :
      /\ TemplatesAsked[i] = "\\bRSI\\s*\\(\\s*{WINDOW}\\s*\\)" =>
           MatchesWithWindow(ret.res.val.templates[i], "RSI(14)", "14")
      /\ TemplatesAsked[i] = "RSI({WINDOW})" =>
           /\ search(ret.res.val.templates[i], "RSI(14)") = NoneV
           /\ MatchesWithWindow(ret.res.val.templates[i], "RSI14", "14")

\* The package of the built-in RSI, whose first template escapes its
\* parentheses, was returned.
C13_Witness ==
  /\ ret.op = "get_regex_package" /\ ret.res.ok
  /\ TemplatesAsked # <<>>
  /\ TemplatesAsked[1] = "\\bRSI\\s*\\(\\s*{WINDOW}\\s*\\)"
  /\ search(ret.res.val.templates[1], "RSI(14)") # NoneV

\* The positions of cands at which a signature occurs for the first time.
FirstOccurrences(cands) ==
  {j \in DOMAIN cands :
     \A h \in 1..(j - 1) : _sig_for_candidate(cands[h]).val # _sig_for_candidate(cands[j]).val}

\* The candidates at the n least positions of F, in input order.
TakeAt(cands, F, n) ==
  [k \in 1..n |-> cands[CHOOSE j \in F : Cardinality({h \in F : h <= j}) = k]]

\* Every candidate of the call has a signature.
WellFormed(cands) == \A j \in DOMAIN cands : _sig_for_candidate(cands[j]).ok

\* _dedup_candidates has returned for candidates that all have a signature.
Deduplicated == ret.op = "_dedup_candidates" /\ ret.res.ok /\ WellFormed(ret.cands)

\* C17 as stated: _dedup_candidates returns, in input order, the first
\* occurrence of each distinct signature, and candidates that differ in
\* name or timeframe are all kept.
C17_AllFirstOccurrences ==
  Deduplicated =>
    /\ ret.res.val = TakeAt(ret.cands, FirstOccurrences(ret.cands),
                            Cardinality(FirstOccurrences(ret.cands)))
    /\ \A j \in DOMAIN ret.cands :
         (\A h \in 1..(j - 1) :
            \/ dict_get(ret.cands[h], "name", NoneV) # dict_get(ret.cands[j], "name", NoneV)
            \/ dict_get(ret.cands[h], "timeframe", NoneV) # dict_get(ret.cands[j], "timeframe", NoneV))
         => ret.cands[j] \in Range(ret.res.val)

\* C17, amended: _dedup_candidates returns, in input order, the first
\* occurrences of the distinct signatures until `limit` candidates are
\* kept, and at least one of them: of d first occurrences the first
\* min(max(limit, 1), d).  Candidates whose normalized names or normalized
\* timeframes differ have different signatures.
C17_FirstOccurrencesUpToLimit ==
  Deduplicated =>
    /\ ret.res.val =
         TakeAt(ret.cands, FirstOccurrences(ret.cands),
                Min({Cardinality(FirstOccurrences(ret.cands)), Max({ret.limit, 1})}))
    /\ \A j, h \in DOMAIN ret.cands :
         (\/ _norm_str(dict_get(ret.cands[h], "name", StrV("")))
               # _norm_str(dict_get(ret.cands[j], "name", StrV("")))
          \/ _norm_str(dict_get(ret.cands[h], "timeframe", StrV("")))
               # _norm_str(dict_get(ret.cands[j], "timeframe", StrV(""))))
         => _sig_for_candidate(ret.cands[h]).val # _sig_for_candidate(ret.cands[j]).val

\* Three candidates were deduplicated with room for all of them, and one
\* was dropped for a signature seen before.
C17_Witness ==
  /\ Deduplicated
  /\ Len(ret.cands) = 3 /\ ret.limit >= 3
  /\ Len(ret.res.val) = 2

\* text[a:b] for 0 <= a <= b
Slice(text, a, b) == SubSeq(text, a + 1, Min({b, Len(text)}))

\* _chunk_text has returned for a text longer than chunk_size and an
\* overlap with 0 <= overlap < chunk_size.
ChunkedWithOverlap ==
  /\ ret.op = "_chunk_text" /\ ret.pc = "return"
  /\ Len(ret.text) > ret.chunk_size
  /\ 0 <= ret.overlap /\ ret.overlap < ret.chunk_size

\* What C18 says of the chunks returned.
ChunksAsDescribed ==
  ChunkedWithOverlap =>
    /\ \A k \in DOMAIN ret.chunks :
         ret.chunks[k] = Slice(ret.text, (k - 1) * (ret.chunk_size - ret.overlap),
                               (k - 1) * (ret.chunk_size - ret.overlap) + ret.chunk_size)
    /\ \A k \in 1..ret.max_chunks :
         (k - 1) * (ret.chunk_size - ret.overlap) < Len(ret.text) => k \in DOMAIN ret.chunks
    /\ ret.max_chunks >= 2 => Len(ret.chunks) >= 2
    /\ Len(ret.chunks) <= ret.max_chunks
    /\ \A k \in 1..(Len(ret.chunks) - 1) :
         (Len(ret.chunks[k]) = ret.chunk_size /\ Len(ret.chunks[k + 1]) >= ret.overlap) =>
           Slice(ret.chunks[k], ret.chunk_size - ret.overlap, ret.chunk_size)
             = Slice(ret.chunks[k + 1], 0, ret.overlap)

\* C18: for a text longer than chunk_size and 0 <= overlap < chunk_size,
\* chunk k is text[k*step : k*step + chunk_size] with step = chunk_size -
\* overlap, there are at least two chunks when max_chunks >= 2 and never
\* more than max_chunks, and a full-size chunk ends with the `overlap`
\* characters its successor begins with; and for every overlap, also one of
\* chunk_size or more, the loop is left.
C18_ChunksOverlapAndLoopEnds ==
  /\ []ChunksAsDescribed
  /\ (ret.op = "_chunk_text" /\ ret.pc = "while") ~> (ret.op = "_chunk_text" /\ ret.pc = "return")

\* A text was cut into full-size chunks that overlap by one character or
\* more.
C18_Witness ==
  /\ ChunkedWithOverlap
  /\ ret.overlap >= 1
  /\ Len(ret.chunks) >= 3
  /\ Len(ret.chunks[1]) = ret.chunk_size /\ Len(ret.chunks[2]) = ret.chunk_size

\* The items the answers of the LLM carry in the last call.
ItemsAnswered ==
  UNION {Range(_json_from_text(ret.llm[k].val)) : k \in {h \in DOMAIN ret.llm : ret.llm[h].ok}}

\* C19: extract_strategies raises nothing and returns a non-empty list,
\* whatever the text and whatever each attempt of the LLM does; the list is
\* the single fallback strategy or holds candidates the LLM answered, and it
\* is the fallback when no attempt answers with candidates.
C19_NeverRaisesNeverEmpty ==
  ret.op = "extract_strategies" =>
    /\ ret.res.ok
    /\ ret.res.val # <<>>
    /\ ret.res.val = <<Fallback>> \/ Range(ret.res.val) \subseteq ItemsAnswered
    /\ ItemsAnswered = {} => ret.res.val = <<Fallback>>

\* The text was cut in two chunks, the primary model answered the first
\* with malformed candidates, and the fallback strategy was returned.
C19_Witness ==
  /\ ret.op = "extract_strategies" /\ ret.res.ok
  /\ ret.text = StrV("abcde") /\ ret.knobs = <<3, 1, 2>> /\ ret.llm_hint = NoneV
  /\ ret.llm[1] = Ok("Candidates: [1, 2]")
  /\ ret.llm[3] = LLMRaises
  /\ ret.res.val = <<Fallback>>

-----------------------------------------------------------------------------
(* compute on definitions whose bindings differ from the built-in shape:   *)
(* a required input the binding does not map, a binding for a backend      *)
(* other than pandas_ta, a canonical name that is the lower-cased name of  *)
(* a built-in.                                                             *)

\* A definition that requires close and volume; its pandas_ta binding maps
\* close alone, and it holds a second binding, for talib.
Def_Bar ==
  IndicatorDef("Bar", <<"close", "volume">>, <<>>, <<"bar index">>, <<>>, <<>>,
    <<B("pandas_ta", "bar", <<>>, <<KV("close", "close")>>),
      B("talib", "BAR", <<>>, <<KV("close", "real")>>)>>,
    NL(<<>>, <<>>))

BindingArgs == {Def_Bar, Def_rsi}
BindingNames == {"Bar", "OBV", "PSAR", "RSI", "relative strength index", "nope"}
BindingParams == {<<>>, <<KV("tag", IntV(7))>>}
BindingOutcomes ==
  {[kind |-> "raise"], [kind |-> "none"], [kind |-> "frame", columns |-> <<"OBV">>]}

DoRegisterBinding == \E idef \in BindingArgs : Register(idef)
DoComputeBinding ==
  \E n \in BindingNames, p \in BindingParams, b \in Backends, bk \in BindingOutcomes :
    Compute(n, p, b, bk)

\* Registration of definitions with bindings of their own, and computation.
NextBindings == DoRegisterBinding \/ DoLoad \/ DoComputeBinding

SpecBindings == Init /\ [][NextBindings]_vars

\* The binding the last compute call selected, and whether its parameters
\* passed validation.
RetBinding == find_binding(RetDef.val, ret.backend)
RetValidated == validate_params(_defs, _syn_index, RetDef.val.name, ret.params)

\* The required inputs of a definition for which the table has no column.
MissingInputs(idef, table) ==
  {idef.inputs[i] : i \in {j \in DOMAIN idef.inputs : ~_find_series(table, idef.inputs[j]).ok}}

\* The column a logical input is read from by the rule of the alias table:
\* the first alias that is a column, else the logical name itself.
AliasColumn(table, logical) ==
  LET aliases == GetOr(_PRICE_ALIASES, logical, <<>>)
  IN IF \E i \in DOMAIN aliases : aliases[i] \in Range(table)
     THEN aliases[CHOOSE i \in DOMAIN aliases :
                    /\ aliases[i] \in Range(table)
                    /\ \A j \in 1..(i - 1) : aliases[j] \notin Range(table)]
     ELSE logical

\* C21: compute resolves every required input of the definition to a table
\* column, the first alias in list order that is a column, else the logical
\* name; a required input without a column makes compute fail with
\* MissingInput naming the input and the table's columns.
C21_RequiredInputsResolved ==
  (ret.op = "compute" /\ RetDef.ok /\ RetBinding # NoneV /\ RetValidated.ok)
    => IF MissingInputs(RetDef.val, ret.before) = {}
       THEN ret.invoked
              => \A i \in DOMAIN RetDef.val.inputs :
                   AliasColumn(ret.before, RetDef.val.inputs[i]) \in Values(ret.kwargs)
       ELSE /\ ~ret.res.ok
            /\ ret.res.exc = "KeyError"
            /\ ret.res.at = "_find_series"
            /\ \E m \in MissingInputs(RetDef.val, ret.before) :
                 Contains(ret.res.msg, "'" \o m \o "'")
            /\ Contains(ret.res.msg, ColumnsRepr(ret.before))

\* The same for the inputs the selected binding maps.
C21_MappedInputsResolved ==
  (ret.op = "compute" /\ RetDef.ok /\ RetBinding # NoneV /\ RetValidated.ok)
    => LET mapped == [inputs |-> [i \in DOMAIN RetBinding.input_map |->
                                    RetBinding.input_map[i].k]]
       IN IF MissingInputs(mapped, ret.before) = {}
          THEN ret.invoked
                 => \A i \in DOMAIN mapped.inputs :
                      AliasColumn(ret.before, mapped.inputs[i]) \in Values(ret.kwargs)
          ELSE /\ ~ret.res.ok
               /\ ret.res.at = "_find_series"
               /\ \E m \in MissingInputs(mapped, ret.before) :
                    Contains(ret.res.msg, "'" \o m \o "'")
               /\ Contains(ret.res.msg, ColumnsRepr(ret.before))

\* C22: over the compute calls on one table the column set only grows: a
\* successful call leaves the columns it found united with the new columns
\* it reports, which are none of the columns it found (so the lists of two
\* calls are disjoint and the table is the first column set united with
\* all lists reported), a failed call leaves the columns as they were, and
\* a call whose backend returns only names already present reports none.
C22_ColumnsAccumulate ==
  [][ret'.op = "compute"
       => /\ Range(df) \subseteq Range(df')
          /\ ret'.before = df
          /\ IF ret'.res.ok
             THEN /\ Range(df') = Range(df) \cup Range(ret'.res.val.columns)
                  /\ Range(ret'.res.val.columns) \cap Range(df) = {}
                  /\ (ret'.bk.kind = "frame" /\ Range(ret'.bk.columns) \subseteq Range(df))
                       => ret'.res.val.columns = <<>>
             ELSE df' = df]_vars

C22_Witness ==
  /\ ret.op = "compute"
  /\ ret.res.ok
  /\ ret.bk.kind = "frame"
  /\ Range(ret.bk.columns) \subseteq Range(ret.before)
  /\ "OBV" \in Range(ret.bk.columns)
  /\ ret.res.val.columns = <<>>
  /\ Cardinality(Range(df)) > 5

\* The failure the error taxonomy calls UnsupportedBackend: the
\* NotImplementedError of compute.
IsUnsupportedBackend(res) == ~res.ok /\ res.exc = "NotImplementedError"

\* C26: compute fails with UnsupportedBackend only when the resolved
\* indicator holds no binding for the requested backend; with a binding for
\* it, valid parameters and inputs that have columns, the adapter is
\* invoked with the binding's target function.
C26_UnsupportedOnlyWithoutBinding ==
  (ret.op = "compute" /\ RetDef.ok)
    => /\ IsUnsupportedBackend(ret.res) => RetBinding = NoneV
       /\ (/\ RetBinding # NoneV
           /\ RetValidated.ok
           /\ find_inputs(ret.before, RetBinding.input_map).ok)
            => /\ ret.invoked
               /\ ret.res.ok => ret.res.val.spec.func = RetBinding.func
               /\ ~ret.res.ok => ret.res.at = "call" /\ ret.res.msg = RetBinding.func

\* The keyword arguments compute merges for a binding once the parameters
\* pvals are validated, each input standing for its column.
MergedArgs(binding, pvals) ==
  Update([i \in DOMAIN binding.input_map |->
            KV(binding.input_map[i].v, binding.input_map[i].k)],
         translate(binding.param_map, pvals))

\* C28: for every built-in indicator the backend receives one keyword
\* argument per validated parameter: the translation through param_map
\* takes no two parameters to one argument name and none to the argument
\* name of an input, so the merged arguments drop and overwrite nothing.
C28_OneArgumentPerParameter ==
  /\ \A n \in BuiltinNames : \A i \in DOMAIN _defs[n].bindings :
       LET idef == _defs[n]
           binding == idef.bindings[i]
           backend_args == translate(binding.param_map, param_defaults(idef))
       IN /\ Len(backend_args) = Len(idef.params)
          /\ Keys(backend_args) \cap Values(binding.input_map) = {}
          /\ Len(MergedArgs(binding, param_defaults(idef)))
               = Len(idef.params) + Len(binding.input_map)
  /\ (ret.op = "compute" /\ ret.invoked /\ RetDef.val.name \in BuiltinNames)
       => Len(ret.kwargs) = Len(RetValidated.val) + Len(RetBinding.input_map)

\* C29: within one compute call the definition the parameters are
\* validated against is the definition the binding was taken from: the
\* canonical name of what a name resolves to resolves to the same
\* definition.
C29_ValidatedAgainstResolved ==
  /\ \A x \in BindingNames :
       resolve(_defs, _syn_index, x).ok
         => resolve(_defs, _syn_index, resolve(_defs, _syn_index, x).val.name)
              = resolve(_defs, _syn_index, x)
  /\ (ret.op = "compute" /\ RetDef.ok /\ RetBinding # NoneV /\ ret.res.ok)
       => Keys(ret.res.val.spec.params) = DeclaredParams(RetDef.val)

\* C27: after any register calls, accepted or rejected, every key of the
\* alias index is lower-case, every value of it is a canonical name in the
\* catalog, and the lower-cased name of every registered indicator is a
\* key of the alias index.
C27_AliasIndexWellFormed ==
  /\ \A k \in DOMAIN _syn_index : lower(k) = k
  /\ \A k \in DOMAIN _syn_index : _syn_index[k] \in DOMAIN _defs
  /\ \A n \in DOMAIN _defs : _defs[n].name = n /\ lower(n) \in DOMAIN _syn_index

C27_Witness ==
  /\ ret.op = "register"
  /\ ret.idef = Def_RSI_again
  /\ ~ret.res.ok
  /\ {"Foo", "rsi"} \subseteq DOMAIN _defs
  /\ _syn_index["foo index"] = "Foo"
  /\ _syn_index["rsi"] = "Foo"

-----------------------------------------------------------------------------
(* The regex package of definitions whose synonyms and templates are not   *)
(* of the built-in shape.                                                  *)

\* Synonyms with characters re.escape puts a backslash before, one of them
\* the beginning of another; a template with a placeholder that is none of
\* the six and a template with all six.
Def_DI ==
  IndicatorDef("DI", <<"high", "low", "close">>, <<>>,
    <<"plus dmi", "+DI -DI", "plus">>, <<>>, <<>>,
    <<B("pandas_ta", "dm", <<>>, <<KV("high", "high"), KV("low", "low")>>)>>,
    NL(<<KV("de", <<"plus DI">>)>>,
       <<"\\bDI\\s*\\(\\s*{PERIOD}\\s*\\)",
         "{WINDOW} {FAST} {SLOW} {SIGNAL} {STDEV} {THRESHOLD}">>))

\* A template with two different placeholders and one with the same
\* placeholder twice.
Def_Ratio ==
  IndicatorDef("Ratio", <<"close">>, <<>>, <<"ma ratio">>, <<>>, <<>>,
    <<B("pandas_ta", "ratio", <<>>, <<KV("close", "close")>>)>>,
    NL(<<>>, <<"{FAST}/{SLOW}", "{WINDOW}-{WINDOW}">>))

\* A definition without a name, a synonym or a label: its synonym set is empty.
Def_Unnamed ==
  IndicatorDef("", <<"close">>, <<>>, <<>>, <<KV("talib", "")>>, <<>>,
    <<B("pandas_ta", "x", <<>>, <<KV("close", "close")>>)>>,
    NL(<<>>, <<"{STDEV}">>))

TemplateArgs == {Def_DI, Def_Ratio, Def_Unnamed}
TemplateNames == {"DI", "plus", "Ratio", "ma ratio", "", "OBV", "nope"}
TemplateLanguages == {"en", "de"}

DoRegisterTemplates == \E idef \in TemplateArgs : Register(idef)
DoGetTemplatePackage ==
  \E n \in TemplateNames, l \in TemplateLanguages : GetRegexPackage(n, l)

\* Registration and the regex package.
NextTemplates == DoRegisterTemplates \/ DoGetTemplatePackage

SpecTemplates == Init /\ [][NextTemplates]_vars

\* The alternatives of a synonym detector in the order of the alternation,
\* unescaped.
DetectorOrder(pat) ==
  IF pat.pattern = "(?!x)x" THEN <<>>
  ELSE [i \in DOMAIN parse(pat.pattern).val[1][3].alts |->
          LitText(parse(pat.pattern).val[1][3].alts[i])]

\* a is the beginning of b and shorter than b.
ProperPrefix(a, b) == Len(a) < Len(b) /\ SubSeq(b, 1, Len(a)) = a

\* C24 as stated: the escaped synonyms stand in the alternation in
\* non-increasing order of their length, and the longer of two synonyms of
\* which one is the beginning of the other stands first.
C24_EscapedLengthsDescend ==
  (ret.op = "get_regex_package" /\ ret.res.ok) =>
    \E order \in {DetectorOrder(ret.res.val.synonyms)} :
      /\ \A i, j \in DOMAIN order :
           i < j => Len(escape(order[i])) >= Len(escape(order[j]))
      /\ \A i, j \in DOMAIN order : ProperPrefix(order[i], order[j]) => j < i

\* C24, amended: the synonyms are sorted by non-increasing length before
\* they are escaped, so the synonyms stand in the alternation in
\* non-increasing order of their unescaped length, whatever the lengths of
\* their escaped texts; the longer of two synonyms of which one is the
\* beginning of the other stands first, their escaped texts included.
C24_SynonymLengthsDescend ==
  (ret.op = "get_regex_package" /\ ret.res.ok) =>
    \E order \in {DetectorOrder(ret.res.val.synonyms)} :
      /\ Range(order) = syns(RetDef.val, ret.lang)
      /\ ret.res.val.synonyms.pattern
           = (IF order = <<>> THEN "(?!x)x"
              ELSE "(?i)\\b(" \o join("|", [i \in DOMAIN order |-> escape(order[i])]) \o ")\\b")
      /\ \A i, j \in DOMAIN order : i < j => Len(order[i]) >= Len(order[j])
      /\ \A i, j \in DOMAIN order :
           (ProperPrefix(order[i], order[j])
              \/ ProperPrefix(escape(order[i]), escape(order[j]))) => j < i

\* The package of DI: "plus dmi" stands before "+DI -DI", whose escaped
\* text is longer, and before "plus", which it begins with; the detector
\* finds all of "plus dmi" in a text.
C24_Witness ==
  /\ ret.op = "get_regex_package"
  /\ ret.res.ok
  /\ RetDef.val = Def_DI
  /\ DetectorOrder(ret.res.val.synonyms) = <<"plus dmi", "+DI -DI", "plus", "DI">>
  /\ search(ret.res.val.synonyms, "a Plus DMI cross").end = 10

\* Texts a detector is tried on.
DetectorTexts == {"", "x", "xx", "a x", "DI", "plus dmi"}

\* What a returned package holds for the definition idef and the language:
\* one compiled template per entry of regex_templates, in the same order,
\* each the template with the known placeholders replaced; a placeholder
\* that is none of the six stands as literal text; an empty synonym set
\* gives a detector that matches nothing.
PackageAsDescribed(pkg, idef, lang) ==
  /\ Len(pkg.templates) = Len(idef.nlp.regex_templates)
  /\ \A i \in DOMAIN pkg.templates :
       /\ pkg.templates[i].pattern = substitute(idef.nlp.regex_templates[i], 1)
       /\ idef.nlp.regex_templates[i] = "\\bDI\\s*\\(\\s*{PERIOD}\\s*\\)"
            => /\ pkg.templates[i].pattern = idef.nlp.regex_templates[i]
               /\ search(pkg.templates[i], "di ( {period} )") # NoneV
               /\ search(pkg.templates[i], "DI(14)") = NoneV
  /\ syns(idef, lang) = {}
       => \A text \in DetectorTexts : search(pkg.synonyms, text) = NoneV

\* C25: get_regex_package never fails for an indicator that resolves: an
\* empty synonym set yields a detector that matches nothing, an unknown
\* placeholder is compiled as literal text, and the package holds one
\* compiled template per regex_templates entry, in order, for every
\* combination of the six placeholders, the same placeholder used twice
\* included.
C25_PackageNeverFails ==
  (ret.op = "get_regex_package" /\ RetDef.ok)
    => ret.res.ok /\ PackageAsDescribed(ret.res.val, RetDef.val, ret.lang)

\* The same for the calls that return.
C25_ReturnedPackageAsDescribed ==
  (ret.op = "get_regex_package" /\ ret.res.ok)
    => PackageAsDescribed(ret.res.val, RetDef.val, ret.lang)

-----------------------------------------------------------------------------
(* register running on one thread while another thread reads.  A thread    *)
(* may be preempted between any two statements; one dict store and one     *)
(* call of list or resolve are taken as indivisible.  In this              *)
(* specification ret holds both threads: the writer's register call with   *)
(* its position, and what the reader's last call observed.                 *)

ThreadArgs == {Def_Foo, Def_RSI_again}
ThreadQueries == {"Foo", "foo", "foo index", "FooLabel", "Foo Oscillator", "rsi", "nope"}

WriterIdle == [pc |-> "idle"]
ReaderIdle == [op |-> "none"]

\* Both threads before their first call, on a freshly constructed registry.
InitThreads ==
  /\ _defs = _load_builtin_definitions.defs
  /\ _syn_index = _load_builtin_definitions.syn
  /\ df = <<"open", "high", "low", "close", "volume">>
  /\ ret = [op |-> "threads", writer |-> WriterIdle, reader |-> ReaderIdle]

\* Line 284 without the assignment.
register_store_skipped(defs, idef) == defs

\* Line 284: `self._defs[idef.name] = idef`
register_store(defs, idef) == (idef.name :> idef) @@ defs

\* Line 292: `self._syn_index[alias.lower()] = idef.name`
register_index(syn, idef, alias) == (lower(alias) :> idef.name) @@ syn

\* The writer calls register(idef): lines 282-283, the duplicate check.
RegisterEnter(idef) ==
  /\ ret.writer.pc = "idle"
  /\ idef.name \in DOMAIN _defs \/ Cardinality(DOMAIN _defs) < NumBuiltins + MaxRegistered
  /\ ret' = [ret EXCEPT !.writer =
               IF idef.name \in DOMAIN _defs
               THEN [pc |-> "idle", idef |-> idef,
                     res |-> Raise("ValueError", "register",
                                   "Indicator '" \o idef.name \o "' already registered")]
               ELSE [pc |-> "store", idef |-> idef]]
  /\ UNCHANGED <<_defs, _syn_index, df>>

\* Line 284, then lines 285-290: the aliases are collected in a local set.
RegisterStore ==
  /\ ret.writer.pc = "store"
  /\ _defs' = register_store(_defs, ret.writer.idef)
  /\ ret' = [ret EXCEPT !.writer =
               [pc |-> "index", idef |-> ret.writer.idef,
                all_aliases |-> all_aliases(ret.writer.idef)]]
  /\ UNCHANGED <<_syn_index, df>>

\* Lines 291-292: one pass of the loop over the set, in the set's order.
RegisterIndex ==
  /\ ret.writer.pc = "index"
  /\ ret.writer.all_aliases # {}
  /\ \E alias \in ret.writer.all_aliases :
       /\ _syn_index' = register_index(_syn_index, ret.writer.idef, alias)
       /\ ret' = [ret EXCEPT !.writer.all_aliases = @ \ {alias}]
  /\ UNCHANGED <<_defs, df>>

\* The loop is exhausted and register returns.
RegisterReturn ==
  /\ ret.writer.pc = "index"
  /\ ret.writer.all_aliases = {}
  /\ ret' = [ret EXCEPT !.writer =
               [pc |-> "idle", idef |-> ret.writer.idef, res |-> Ok(NoneV)]]
  /\ UNCHANGED <<_defs, _syn_index, df>>

\* The definition whose registration is in progress, None if none is.
InProgress == IF ret.writer.pc = "idle" THEN NoneV ELSE ret.writer.idef

\* The reader calls list()
ReaderList ==
  /\ ret' = [ret EXCEPT !.reader =
               [op |-> "list", during |-> InProgress, res |-> Ok(list(_defs))]]
  /\ UNCHANGED <<_defs, _syn_index, df>>

\* The reader calls resolve(name_or_alias); `listed` holds the names list()
\* would have returned at that moment beyond the built-in ones.
ReaderResolve(name_or_alias) ==
  /\ ret' = [ret EXCEPT !.reader =
               [op |-> "resolve", during |-> InProgress, name |-> name_or_alias,
                listed |-> DOMAIN _defs \ BuiltinNames,
                res |-> resolve(_defs, _syn_index, name_or_alias)]]
  /\ UNCHANGED <<_defs, _syn_index, df>>

DoRegisterEnter == \E idef \in ThreadArgs : RegisterEnter(idef)
DoReaderResolve == \E q \in ThreadQueries : ReaderResolve(q)

NextThreads ==
  \/ DoRegisterEnter \/ RegisterStore \/ RegisterIndex \/ RegisterReturn
  \/ ReaderList \/ DoReaderResolve

SpecThreads == InitThreads /\ [][NextThreads]_vars

\* C30 as stated: register appears atomic to a concurrent reader: while
\* register(I) is in progress, no resolve on another thread observes a
\* state in which I.name is in the catalog (and returned by list) but I's
\* lower-cased name or an alias of I does not resolve to I.
C30_RegisterAppearsAtomic ==
  (/\ ret.reader.op = "resolve"
   /\ ret.reader.during # NoneV
   /\ ret.reader.during.name \in ret.reader.listed
   /\ ret.reader.name \in {lower(ret.reader.during.name)} \cup Aliases(ret.reader.during))
    => ret.reader.res = Ok(ret.reader.during)

\* The registry as construction left it, before the writer's first call.
Built == _load_builtin_definitions

\* C30, amended: register is not atomic.  It stores I in the catalog, then
\* indexes I's aliases one at a time: a reader may find I.name listed while
\* an alias of I resolves as it did before the call (to another
\* definition, or not at all).  At every point of the call every value of
\* the alias index is a name in the catalog, each alias of I resolves
\* either as before the call or to I, and once register has returned
\* every alias of I resolves to I and the registry is what one indivisible
\* register would have left.
C30_RegisterStepwise ==
  /\ \A k \in DOMAIN _syn_index : _syn_index[k] \in DOMAIN _defs
  /\ (ret.reader.op = "resolve" /\ ret.reader.during # NoneV
        /\ ret.reader.name \in {lower(ret.reader.during.name)} \cup Aliases(ret.reader.during))
       => ret.reader.res \in {Ok(ret.reader.during),
                              resolve(Built.defs, Built.syn, ret.reader.name)}
  /\ (ret.reader.op = "resolve" /\ ret.reader.during = NoneV
        /\ "Foo" \in ret.reader.listed
        /\ ret.reader.name \in {"foo"} \cup Aliases(Def_Foo))
       => ret.reader.res = Ok(Def_Foo)
  /\ (ret.reader.op = "list" /\ ret.reader.res.ok)
       => Range(ret.reader.res.val) \subseteq BuiltinNames \cup {"Foo"}
  /\ (ret.writer.pc = "idle" /\ "Foo" \in DOMAIN _defs)
       => /\ _defs = register(Built.defs, Built.syn, Def_Foo).defs
          /\ _syn_index = register(Built.defs, Built.syn, Def_Foo).syn

\* A resolve that found Foo listed and its alias unknown, register having
\* returned since.
C30_Witness ==
  /\ ret.reader.op = "resolve"
  /\ ret.reader.during = Def_Foo
  /\ "Foo" \in ret.reader.listed
  /\ ret.reader.name = "foo index"
  /\ ~ret.reader.res.ok
  /\ ret.writer.pc = "idle"
  /\ ret.writer.res.ok
  /\ _syn_index["foo index"] = "Foo"

-----------------------------------------------------------------------------
(* The read operations as writes to objects.  Python passes references:    *)
(* a call can change the catalog, the alias index or the caller's          *)
(* overrides dict through any name bound to them.  An object is named by   *)
(* where it lives: _defs, _syn_index and params (the caller's argument)    *)
(* outlive the call; empty, out, d and file are made by it.  Each          *)
(* statement that writes is a write to the object its target names.  The   *)
(* caller's overrides are None or a dict.                                  *)

Objects(defs, syn, params) ==
  [_defs |-> defs, _syn_index |-> syn, params |-> params,
   empty |-> NoneV, out |-> NoneV, d |-> NoneV, file |-> NoneV]

\* What a call gives back: the objects after it, and the result.
Effect(h, res) == [h |-> h, res |-> res]

\* Line 168, `params = params or {}`: the object the name denotes from
\* there on, the caller's dict or a new empty one.
params_or_empty(h) ==
  IF Falsy(h.params)
  THEN [at |-> "empty", h |-> [h EXCEPT !.empty = DictV(<<>>)]]
  ELSE [at |-> "params", h |-> h]

\* Line 169 with `out = params`: no new dict, out is the object params is.
out_is_params(p, idef) == [at |-> p.at, params |-> p.at, h |-> p.h]

\* Line 169, `out = idef.param_defaults()`: out is a new dict.
out_is_new(p, idef) ==
  [at |-> "out", params |-> p.at, h |-> [p.h EXCEPT !.out = DictV(param_defaults(idef))]]

\* Line 170, `out.update(params)`
out_update(o) == [at |-> o.at, h |-> [o.h EXCEPT ![o.at] = DictV(Update(@.d, o.h[o.params].d))]]

\* Line 171
pmap_of(idef) ==
  Update(<<>>, [i \in DOMAIN idef.params |-> KV(idef.params[i].name, idef.params[i])])

\* Lines 173-192 for the entry (k, v): the coerced value is stored in out
\* (`out[k] = int(v)`, ...) before the checks of lines 193-199 are made.
coerce_on(idef, pmap, o, k, v) ==
  IF k \notin Keys(pmap) \/ ~coerce(Get(pmap, k), k, v).ok THEN o
  ELSE [o EXCEPT !.h[o.at] = DictV(Put(@.d, k, coerce(Get(pmap, k), k, v).val))]

RECURSIVE validate_on(_, _, _, _)
\* The loop of lines 172-199 from the i-th entry of out on; it returns the
\* object out.
validate_on(idef, pmap, o, i) ==
  IF i > Len(o.h[o.at].d) THEN Effect(o.h, Ok(o.h[o.at].d))
  ELSE IF ~validate_one(idef, pmap, o.h[o.at].d[i].k, o.h[o.at].d[i].v).ok
  THEN Effect(coerce_on(idef, pmap, o, o.h[o.at].d[i].k, o.h[o.at].d[i].v).h,
              validate_one(idef, pmap, o.h[o.at].d[i].k, o.h[o.at].d[i].v))
  ELSE validate_on(idef, pmap,
                   coerce_on(idef, pmap, o, o.h[o.at].d[i].k, o.h[o.at].d[i].v), i + 1)

\* validate_params on the objects h
validate_params_on(h, name_or_alias) ==
  IF ~resolve(h._defs, h._syn_index, name_or_alias).ok
  THEN Effect(h, resolve(h._defs, h._syn_index, name_or_alias))
  ELSE CHOOSE e \in
         {validate_on(idef, pmap_of(idef), out_update(out_is_new(params_or_empty(h), idef)), 1) :
            idef \in {resolve(h._defs, h._syn_index, name_or_alias).val}} : TRUE

\* list on the objects h: `sorted(...)` makes a new list.
list_on(h) == Effect(h, Ok(list(h._defs)))

\* resolve on the objects h: the definition itself is returned.
resolve_on(h, name_or_alias) == Effect(h, resolve(h._defs, h._syn_index, name_or_alias))

\* describe on the objects h: `d = asdict(idef)` is a deep copy of the
\* definition, and line 163 stores into that copy.
describe_on(h, name_or_alias) ==
  IF ~resolve(h._defs, h._syn_index, name_or_alias).ok
  THEN Effect(h, resolve(h._defs, h._syn_index, name_or_alias))
  ELSE Effect([h EXCEPT !.d = resolve(h._defs, h._syn_index, name_or_alias).val],
              Ok(resolve(h._defs, h._syn_index, name_or_alias).val))

\* get_regex_package on the objects h: the sets, the list of compiled
\* templates and the dict of thresholds it returns are new objects.
get_regex_package_on(h, name_or_alias, lang) ==
  {Effect([h EXCEPT !.out = pkg], pkg) :
     pkg \in get_regex_package(h._defs, h._syn_index, name_or_alias, lang)}

\* Line 277 for the i-th name of self.list(), if there is one:
\* `out.append(self.describe(name))`
export_1(h, names, i) ==
  IF i > Len(names) THEN h
  ELSE [describe_on(h, names[i]).h EXCEPT
          !.out = Append(h.out, describe_on(h, names[i]).res.val)]

\* Two, four and eight passes of the loop.
export_2(h, names, i) == export_1(export_1(h, names, i), names, i + 1)
export_4(h, names, i) == export_2(export_2(h, names, i), names, i + 2)
export_8(h, names, i) == export_4(export_4(h, names, i), names, i + 4)

RECURSIVE export_loop(_, _, _)
\* Lines 276-277 from the i-th name of self.list() on.
export_loop(h, names, i) ==
  IF i > Len(names) THEN h
  ELSE CHOOSE r \in {export_loop(g, names, i + 8) : g \in {export_8(h, names, i)}} : TRUE

\* export_json on the objects h; io tells whether the file can be written.
export_json_on(h, io) ==
  CHOOSE e \in
    {IF io = "ok"
     THEN Effect([g EXCEPT !.file = g.out], Ok(NoneV))
     ELSE Effect(g, Raise("OSError", "open", io)) :
       g \in {export_loop([h EXCEPT !.out = <<>>], list(h._defs), 1)}} : TRUE

\* A call's effect e on the state: the catalog and the alias index are what
\* the call left of them, and ret records the caller's overrides before
\* and after next to the result.
Returns(op, name_or_alias, params, e) ==
  /\ _defs' = e.h._defs
  /\ _syn_index' = e.h._syn_index
  /\ ret' = [op |-> op, name |-> name_or_alias, params |-> params,
             params_after |-> e.h.params, res |-> e.res]
  /\ UNCHANGED df

ListCall == Returns("list", "", NoneV, list_on(Objects(_defs, _syn_index, NoneV)))

ResolveCall(name_or_alias) ==
  Returns("resolve", name_or_alias, NoneV,
          resolve_on(Objects(_defs, _syn_index, NoneV), name_or_alias))

DescribeCall(name_or_alias) ==
  Returns("describe", name_or_alias, NoneV,
          describe_on(Objects(_defs, _syn_index, NoneV), name_or_alias))

ValidateParamsCall(name_or_alias, params) ==
  Returns("validate_params", name_or_alias, params,
          validate_params_on(Objects(_defs, _syn_index, params), name_or_alias))

GetRegexPackageCall(name_or_alias, lang) ==
  \E e \in get_regex_package_on(Objects(_defs, _syn_index, NoneV), name_or_alias, lang) :
    Returns("get_regex_package", name_or_alias, NoneV, e)

ExportJsonCall(io) ==
  Returns("export_json", io, NoneV, export_json_on(Objects(_defs, _syn_index, NoneV), io))

\* register(idef), as a call like the others.
RegisterCall(idef) ==
  /\ idef.name \in DOMAIN _defs \/ Cardinality(DOMAIN _defs) < NumBuiltins + MaxRegistered
  /\ \E r \in {register(_defs, _syn_index, idef)} :
       Returns("register", idef.name, NoneV,
               Effect(Objects(r.defs, r.syn, NoneV), IF r.ok THEN Ok(NoneV) ELSE r.err))

FrameArgs == {Def_Foo, Def_Bar, Def_RSI_again}
FrameNames == {"RSI", "Foo", "foo index", "Bar", "nope"}
FrameParams ==
  {NoneV, DictV(<<>>), DictV(<<KV("window", StrV("20"))>>), DictV(<<KV("window", IntV(0))>>),
   DictV(<<KV("flag", StrV("YES")), KV("bogus", IntV(1))>>)}
FileOutcomes == {"ok", "Permission denied"}

DoRegisterCall == \E idef \in FrameArgs : RegisterCall(idef)
DoResolveCall == \E q \in FrameNames : ResolveCall(q)
DoDescribeCall == \E q \in FrameNames : DescribeCall(q)
DoValidateParamsCall == \E q \in FrameNames, p \in FrameParams : ValidateParamsCall(q, p)
DoGetRegexPackageCall == \E q \in FrameNames : GetRegexPackageCall(q, "en")
DoExportJsonCall == \E io \in FileOutcomes : ExportJsonCall(io)

NextFrame ==
  \/ DoRegisterCall \/ ListCall \/ DoResolveCall \/ DoDescribeCall
  \/ DoValidateParamsCall \/ DoGetRegexPackageCall \/ DoExportJsonCall

SpecFrame == Init /\ [][NextFrame]_vars

ReadOperations ==
  {"list", "resolve", "describe", "validate_params", "get_regex_package", "export_json"}

\* C23: list, resolve, describe, validate_params, get_regex_package and
\* export_json leave the catalog, the alias index and every registered
\* definition as they were, whether they return or raise; validate_params
\* leaves the caller's overrides as they were; only register changes the
\* registry.
C23_ReadsChangeNothing ==
  [][/\ (ret'.op \in ReadOperations)
         => (/\ _defs' = _defs
             /\ _syn_index' = _syn_index
             /\ ret'.params_after = ret'.params)
     /\ (ret'.op = "validate_params")
         => (ret'.res = validate_params(_defs, _syn_index, ret'.name,
                                        IF ret'.params = NoneV THEN <<>> ELSE ret'.params.d))
     /\ (_defs' # _defs \/ _syn_index' # _syn_index)
         => (ret'.op = "register" /\ ret'.res.ok)]_vars

\* validate_params returned the coerced window for overrides that still
\* hold the string, on a registry with a registered definition.
C23_Witness ==
  /\ ret.op = "validate_params"
  /\ ret.name = "foo index"
  /\ ret.params = DictV(<<KV("window", StrV("20"))>>)
  /\ ret.res.ok
  /\ Get(ret.res.val, "window") = IntV(20)
  /\ ret.params_after = DictV(<<KV("window", StrV("20"))>>)
  /\ _defs["Foo"] = Def_Foo
====
